---- MODULE Spec2Model ----
(***************************************************************************)
(* Regional tax dashboard: the Firestore-backed RegionalAnalysis view and  *)
(* the Dashboard view of src/src/components/RegionalAnalysis.jsx, as state *)
(* machines over one shared "regions" collection.                          *)
(*                                                                         *)
(* JavaScript values are modelled by tagged records (number, NaN, string,  *)
(* undefined).  Numbers are fixed-point: the integer n stands for the      *)
(* number n / Scale, so 0.85 is 8500 and 85 is 850000.  Text typed by the  *)
(* user is a sequence of one-character strings.                            *)
(***************************************************************************)
EXTENDS Integers, Sequences, FiniteSets, TLC

\* ------------------------------------------------------------------------
\* Bounds
\* ------------------------------------------------------------------------
\* user events in a run: year selections, clicks that open an edit, changes
\* of an input, saves (blur, Enter, Save), and other clicks
MaxSelects == 1
MaxStarts == 1
MaxTyped == 2
MaxSaves == 2
MaxClicks == 1
MaxPicks == 1
\* how many of the years of the `years` list, counted back from 2025, exist
NumYears == 3
\* store requests in flight at once: the user waits when this many are pending
MaxInFlight == 2
\* store requests that fail in a run
MaxFailures == 1
\* changes of the search text, tab clicks, header clicks and exports
MaxSearches == 2
MaxTabs == 1
MaxSorts == 2
MaxExports == 1
\* writes to the collection made by other sessions in a run
MaxOthers == 1

\* fixed-point unit: four decimal places
Scale == 100 * 100

\* ------------------------------------------------------------------------
\* JavaScript values
\* ------------------------------------------------------------------------
Num(n) == [t |-> "num", n |-> n, s |-> << >>]
Str(s) == [t |-> "str", n |-> 0, s |-> s]
NaN == [t |-> "nan", n |-> 0, s |-> << >>]
Undef == [t |-> "undef", n |-> 0, s |-> << >>]
EmptyStr == Str(<< >>)

Digits == {"0", "1", "2", "3", "4", "5", "6", "7", "8", "9"}
DigitVal == [c \in Digits |-> CASE c = "0" -> 0 [] c = "1" -> 1 [] c = "2" -> 2
                                [] c = "3" -> 3 [] c = "4" -> 4 [] c = "5" -> 5
                                [] c = "6" -> 6 [] c = "7" -> 7 [] c = "8" -> 8
                                [] c = "9" -> 9]
DigitChar == <<"0", "1", "2", "3", "4", "5", "6", "7", "8", "9">>

\* UTF-16 code units of the characters that occur (string comparison)
CharCode(c) == CASE c = "," -> 44 [] c = "-" -> 45 [] c = "." -> 46
                 [] c \in Digits -> 48 + DigitVal[c]
                 [] c = "N" -> 78 [] c = "a" -> 97 [] c = "b" -> 98
                 [] OTHER -> 120

Pow10(k) == CASE k = 0 -> 1 [] k = 1 -> 10 [] k = 2 -> 100 [] k = 3 -> 1000 [] OTHER -> Scale

RECURSIVE DigitRun(_, _)
\* length of the run of decimal digits of s that starts at position i
DigitRun(s, i) == IF i <= Len(s) /\ s[i] \in Digits THEN 1 + DigitRun(s, i + 1) ELSE 0

RECURSIVE DigitsValue(_, _, _)
\* the number written by the k digits of s that start at position i
DigitsValue(s, i, k) ==
    IF k = 0 THEN 0 ELSE DigitsValue(s, i, k - 1) * 10 + DigitVal[s[i + k - 1]]

\* A decimal literal at the start of s: whether there is one, its value and
\* the number of characters it takes.  neg: it has a sign; p: where its digits
\* start; ni, nf: its integer and fraction digits; dot: it has a point.
LiteralParts(s, neg, p, ni, dot, nf, kf) ==
    [ok |-> ni + nf > 0,
     val |-> (IF neg THEN 0 - 1 ELSE 1)
             * (DigitsValue(s, p, ni) * Scale
                + (IF nf = 0 THEN 0 ELSE DigitsValue(s, p + ni + 1, kf) * Pow10(4 - kf))),
     len |-> (p - 1) + ni + (IF dot /\ (nf > 0 \/ ni > 0) THEN 1 + nf ELSE 0)]
LiteralFraction(s, neg, p, ni, dot, nf) ==
    LiteralParts(s, neg, p, ni, dot, nf, IF nf > 4 THEN 4 ELSE nf)
LiteralPoint(s, neg, p, ni, dot) ==
    LiteralFraction(s, neg, p, ni, dot, IF dot THEN DigitRun(s, p + ni + 1) ELSE 0)
LiteralDigits(s, withFraction, neg, p, ni) ==
    LiteralPoint(s, neg, p, ni, withFraction /\ p + ni <= Len(s) /\ s[p + ni] = ".")
LiteralSign(s, withFraction, neg) ==
    LiteralDigits(s, withFraction, neg, IF neg THEN 2 ELSE 1, DigitRun(s, IF neg THEN 2 ELSE 1))
Literal(s, withFraction) == LiteralSign(s, withFraction, Len(s) >= 1 /\ s[1] = "-")

\* parseFloat(text): the longest numeric prefix, NaN when there is none
parseFloat(s) == LET l == Literal(s, TRUE) IN IF l.ok THEN Num(l.val) ELSE NaN

\* parseInt(text): the longest integer prefix, NaN when there is none
parseInt(s) == LET l == Literal(s, FALSE) IN IF l.ok THEN Num(l.val) ELSE NaN

\* text.replace(/,/g, "")
StripCommas(s) == SelectSeq(s, LAMBDA c : c # ",")

\* Number(text) as used by the implicit conversions: "" is 0, otherwise the
\* whole text must be one literal
StrToNumber(s) ==
    IF s = << >> THEN Num(0)
    ELSE LET l == Literal(s, TRUE) IN IF l.ok /\ l.len = Len(s) THEN Num(l.val) ELSE NaN

ToNumber(v) == CASE v.t = "num" -> v [] v.t = "str" -> StrToNumber(v.s) [] OTHER -> NaN

RECURSIVE NatToStr(_)
NatToStr(k) == IF k < 10 THEN <<DigitChar[k + 1]>>
               ELSE NatToStr(k \div 10) \o <<DigitChar[(k % 10) + 1]>>

RECURSIVE FracToStr(_, _)
\* the w-digit fraction f without its trailing zeros
FracToStr(f, w) == IF f = 0 THEN << >>
                   ELSE <<DigitChar[(f \div Pow10(w - 1)) + 1]>> \o FracToStr(f % Pow10(w - 1), w - 1)

NumToStr(n) ==
    LET a == IF n < 0 THEN 0 - n ELSE n
    IN (IF n < 0 THEN <<"-">> ELSE << >>) \o NatToStr(a \div Scale)
       \o (IF a % Scale = 0 THEN << >> ELSE <<".">> \o FracToStr(a % Scale, 4))

ToStr(v) == CASE v.t = "num" -> NumToStr(v.n) [] v.t = "str" -> v.s
              [] v.t = "nan" -> <<"N", "a", "N">>
              [] OTHER -> <<"u", "n", "d", "e", "f", "i", "n", "e", "d">>

\* a + b: concatenation as soon as one operand is a string
JsAdd(a, b) ==
    IF a.t = "str" \/ b.t = "str" THEN Str(ToStr(a) \o ToStr(b))
    ELSE IF a.t = "num" /\ b.t = "num" THEN Num(a.n + b.n) ELSE NaN

RECURSIVE StrLess(_, _)
StrLess(x, y) ==
    IF y = << >> THEN FALSE
    ELSE IF x = << >> THEN TRUE
    ELSE IF CharCode(Head(x)) # CharCode(Head(y)) THEN CharCode(Head(x)) < CharCode(Head(y))
    ELSE StrLess(Tail(x), Tail(y))

\* a < b: by code units when both are strings, numerically otherwise
JsLt(a, b) ==
    IF a.t = "str" /\ b.t = "str" THEN StrLess(a.s, b.s)
    ELSE LET x == ToNumber(a)
             y == ToNumber(b)
         IN x.t = "num" /\ y.t = "num" /\ x.n < y.n
JsGt(a, b) == JsLt(b, a)

\* v || 0
OrZero(v) == IF v.t \in {"nan", "undef"} \/ v = Num(0) \/ v = EmptyStr THEN Num(0) ELSE v

\* variant: the percent value is kept as it is
Div100_same(v) == ToNumber(v)
\* v / 100
Div100(v) == LET x == ToNumber(v) IN IF x.t = "num" THEN Num(x.n \div 100) ELSE NaN

\* a * b
JsMul(a, b) ==
    LET x == ToNumber(a)
        y == ToNumber(b)
    IN IF x.t = "num" /\ y.t = "num"
       THEN Num((x.n \div Scale) * y.n + (x.n % Scale) * (y.n \div Scale)
                + ((x.n % Scale) * (y.n % Scale)) \div Scale)
       ELSE NaN

\* ------------------------------------------------------------------------
\* Objects: a region row, a year record, an edit overlay
\* ------------------------------------------------------------------------
\* An object is a record over Keys; a property the object does not have is
\* "" (region) or Undef (the others).
Fields == <<"taxpayers", "averageTax", "totalTax", "salaryTaxpayers",
            "eVatTaxpayers", "otherTaxpayers", "complianceRate">>
FieldSet == {Fields[i] : i \in 1..Len(Fields)}
Keys == {"region", "year"} \cup FieldSet

EmptyObj == [k \in Keys |-> IF k = "region" THEN "" ELSE Undef]
Has(o, k) == IF k = "region" THEN o[k] # "" ELSE o[k] # Undef

\* { ...a, ...b }
Spread(a, b) == [k \in Keys |-> IF Has(b, k) THEN b[k] ELSE a[k]]
\* variant: the spread is forgotten
With_only(a, k, v) == [EmptyObj EXCEPT ![k] = v]
\* { ...a, [k]: v }
With(a, k, v) == [a EXCEPT ![k] = v]

\* the all-zero record substituted for a missing year
ZeroRecord == [k \in Keys |-> IF k = "region" THEN "" ELSE IF k = "year" THEN Undef ELSE Num(0)]

Year(y) == Num(y * Scale)

\* ------------------------------------------------------------------------
\* The Dataset Store: collection "regions", one document per region
\* ------------------------------------------------------------------------
\* documents of a collection snapshot come ordered by document id
RegionOrder == <<"A", "B", "C">>
Regions == {RegionOrder[i] : i \in 1..Len(RegionOrder)}
Years == (2025 - NumYears + 1)..2025

YearRecord(y, tp, avg, tot, sal, ev, oth, crPercent) ==
    [region |-> "", year |-> Year(y),
     taxpayers |-> Num(tp * Scale), averageTax |-> Num(avg * Scale),
     totalTax |-> Num(tot * Scale), salaryTaxpayers |-> Num(sal * Scale),
     eVatTaxpayers |-> Num(ev * Scale), otherTaxpayers |-> Num(oth * Scale),
     complianceRate |-> Num(crPercent * 100)]

\* the seeded collection: A has two years, B only 2024, C only 2025
SeedStore ==
    [r \in Regions |->
        IF r = "A" THEN <<YearRecord(2024, 4, 2, 8, 2, 1, 1, 50),
                          YearRecord(2025, 10, 3, 30, 5, 3, 2, 90)>>
        ELSE IF r = "B" THEN <<YearRecord(2024, 30, 1, 30, 10, 5, 5, 50)>>
        ELSE <<YearRecord(2025, 6, 1, 6, 3, 2, 1, 40)>>]

\* variant: nothing is substituted for a missing year
FindYear_bare(yearlyData, y) ==
    IF \E i \in 1..Len(yearlyData) : yearlyData[i].year = Year(y)
    THEN yearlyData[CHOOSE i \in 1..Len(yearlyData) : yearlyData[i].year = Year(y)]
    ELSE EmptyObj
\* yearlyData.find((d) => d.year === year) || zero record
FindYear(yearlyData, y) ==
    IF \E i \in 1..Len(yearlyData) : yearlyData[i].year = Year(y)
    THEN yearlyData[CHOOSE i \in 1..Len(yearlyData) :
                       /\ yearlyData[i].year = Year(y)
                       /\ \A j \in 1..(i - 1) : yearlyData[j].year # Year(y)]
    ELSE ZeroRecord

\* ------------------------------------------------------------------------
\* Text the user types
\* ------------------------------------------------------------------------
\* the cells and form inputs the user works on
EditedFields == {"taxpayers", "complianceRate"}
RawInputs(field) ==
    IF field = "complianceRate"
    THEN {<< >>, <<"8", "5">>, <<"1", "5", "0">>, <<"0", ".", "5">>}
    ELSE {<<"7">>, <<"-", "1">>, <<"1", ",", "0", "0", "0">>}

\* ------------------------------------------------------------------------
\* State
\* ------------------------------------------------------------------------
VARIABLES
    view,            \* the mounted component
    blurOnRemoval,   \* whether this browser delivers blur to a focused element it removes
    store,           \* Dataset Store: region name -> yearlyData
    tasks,           \* store requests in flight, with what their continuation captured
    events,          \* user events so far
    fails,           \* store requests that failed so far
    last,            \* the handler that ran last, its outcome, the text it was given
    selectedYear, loading, error, saveError,     \* state of either component
    metrics, editedData, isEditing, focused,     \* Dashboard
    regionalData, selectedRegion, editMode, editForm, saving,  \* RegionalAnalysis
    searchQuery, activeTab, sortConfig,          \* the search box, the tier tab, the sorted column
    taxSources,                                  \* TaxSourceBreakdown
    alerts, downloads,                           \* alert() calls and files handed to the browser
    others                                       \* the documents other sessions wrote: region, year

common == <<selectedYear, loading, error, saveError>>
dashboardVars == <<metrics, editedData, isEditing, focused>>
regionalVars == <<regionalData, selectedRegion, editMode, editForm, saving>>
viewVars == <<searchQuery, activeTab, sortConfig, taxSources, alerts, downloads>>
vars == <<view, blurOnRemoval, store, tasks, events, fails, last, common, dashboardVars,
          regionalVars, viewVars, others>>

EditKeys == Regions \X Years
NoEdits == [k \in EditKeys |-> EmptyObj]

\* variant: the record is always appended
UpdatedYearlyData_append(yearlyData, year, cand) ==
    Append(yearlyData, With(cand, "year", Year(year)))
\* the year series saveEdits writes back: the record of the year replaced,
\* or appended when the series has none
UpdatedYearlyData(yearlyData, year, cand) ==
    LET rec == With(cand, "year", Year(year))
        mapped == [i \in 1..Len(yearlyData) |->
                      IF yearlyData[i].year = Year(year) THEN rec ELSE yearlyData[i]]
    IN IF \E i \in 1..Len(yearlyData) : yearlyData[i].year = Year(year)
       THEN mapped ELSE Append(mapped, rec)

\* a getDocs ("fetch": the fetch effect, "read": saveEdits) or an updateDoc
\* ("write") that has been issued and not yet settled
\* year, edits, region, cand: what the continuation closed over; base: the
\* series saveEdits read; payload: the series it writes
Task(kind, region, year, edits, cand, base, payload) ==
    [kind |-> kind, region |-> region, year |-> year, edits |-> edits,
     cand |-> cand, base |-> base, payload |-> payload]
FetchTask(year, edits) == Task("fetch", "", year, edits, EmptyObj, << >>, << >>)
ReadTask(region, year, cand) == Task("read", region, year, NoEdits, cand, << >>, << >>)
WriteTask(region, year, cand, base) ==
    Task("write", region, year, NoEdits, cand, base, UpdatedYearlyData(base, year, cand))

Remove(seq, i) == SubSeq(seq, 1, i - 1) \o SubSeq(seq, i + 1, Len(seq))

FetchFailed == <<"Failed to load data from Firestore. Please try again.">>
SaveFailed == <<"Failed to save changes to Firestore. Please try again.">>

\* ------------------------------------------------------------------------
\* Region names and the search text
\* ------------------------------------------------------------------------
\* the characters of the region names that occur
Letters(name) == CASE name = "A" -> <<"A">> [] name = "B" -> <<"B">>
                   [] name = "Ab" -> <<"A", "b">> [] name = "Ba" -> <<"B", "a">>
                   [] name = "C" -> <<"C">> [] OTHER -> << >>

\* text.toLowerCase()
toLowerCase(text) ==
    [i \in 1..Len(text) |-> CASE text[i] = "A" -> "a" [] text[i] = "B" -> "b"
                              [] text[i] = "C" -> "c" [] OTHER -> text[i]]

\* text.includes(part)
includes(text, part) ==
    \E i \in 0..(Len(text) - Len(part)) : SubSeq(text, i + 1, i + Len(part)) = part

\* what the user can have in the search box
Queries == {<< >>, <<"a">>, <<"B">>, <<"a", "b">>}
Tabs == {"all", "high", "medium", "low"}

\* a >= b
JsGe(a, b) ==
    IF a.t = "str" /\ b.t = "str" THEN ~StrLess(a.s, b.s)
    ELSE LET x == ToNumber(a)
             y == ToNumber(b)
         IN x.t = "num" /\ y.t = "num" /\ x.n >= y.n

\* region.region.toLowerCase().includes(searchQuery.toLowerCase())
MatchesQuery(region, query) ==
    includes(toLowerCase(Letters(region.region)), toLowerCase(query))

\* variant: the high tier starts above 0.8
InTab_open(region, tab) ==
    CASE tab = "high" -> JsGt(region.complianceRate, Num(8000))
      [] tab = "medium" -> /\ JsGe(region.complianceRate, Num(5000))
                           /\ JsLt(region.complianceRate, Num(8000))
      [] tab = "low" -> JsLt(region.complianceRate, Num(5000))
      [] OTHER -> TRUE
\* the first filter of filteredRegions: the compliance tier of the active tab
InTab(region, tab) ==
    CASE tab = "high" -> JsGe(region.complianceRate, Num(8000))
      [] tab = "medium" -> /\ JsGe(region.complianceRate, Num(5000))
                           /\ JsLt(region.complianceRate, Num(8000))
      [] tab = "low" -> JsLt(region.complianceRate, Num(5000))
      [] OTHER -> TRUE

\* RegionalAnalysis (both variants): filter by tab, then by search
RegionalAnalysis_filteredRegions(regions, tab, query) ==
    SelectSeq(SelectSeq(regions, LAMBDA region : InTab(region, tab)),
              LAMBDA region : MatchesQuery(region, query))

\* variant: the first row is left out
Dashboard_filteredMetrics_tail(rows, query) ==
    SelectSeq(IF rows = << >> THEN rows ELSE Tail(rows),
              LAMBDA region : MatchesQuery(region, query))
\* Dashboard: metrics.regionalMetrics?.filter(...) || []
Dashboard_filteredMetrics(rows, query) ==
    SelectSeq(rows, LAMBDA region : MatchesQuery(region, query))

\* TaxSourceBreakdown: taxSources.regions?.filter(...) || []
TaxSourceBreakdown_filteredRegions(regions, query) ==
    SelectSeq(regions, LAMBDA region : MatchesQuery(region, query))

\* ------------------------------------------------------------------------
\* Metrics Aggregator (Dashboard)
\* ------------------------------------------------------------------------
\* p / q, kept exact; Zero is the literal 0 of the guarded branches
Quot(p, q) == [p |-> p, q |-> q]
Zero == Quot(Num(0), Num(Scale))

RECURSIVE SumOf(_, _)
\* rows.reduce((sum, r) => sum + r[k], 0)
SumOf(rows, k) ==
    IF rows = << >> THEN Num(0)
    ELSE JsAdd(SumOf(SubSeq(rows, 1, Len(rows) - 1), k), rows[Len(rows)][k])

RECURSIVE WeightedSum_unweighted(_)
\* variant: the rates are added without their weights
WeightedSum_unweighted(rows) ==
    IF rows = << >> THEN Num(0)
    ELSE JsAdd(WeightedSum_unweighted(SubSeq(rows, 1, Len(rows) - 1)),
               rows[Len(rows)].complianceRate)

RECURSIVE WeightedSum(_)
\* rows.reduce((sum, r) => sum + r.complianceRate * r.taxpayers, 0)
WeightedSum(rows) ==
    IF rows = << >> THEN Num(0)
    ELSE JsAdd(WeightedSum(SubSeq(rows, 1, Len(rows) - 1)),
               JsMul(rows[Len(rows)].complianceRate, rows[Len(rows)].taxpayers))

\* variant: the averages are computed without the guard
Aggregate_unguarded(rows) ==
    LET totalTaxpayers == SumOf(rows, "taxpayers")
        totalTax == SumOf(rows, "totalTax")
    IN [totalTaxpayers |-> totalTaxpayers,
        totalTax |-> totalTax,
        avgTax |-> Quot(totalTax, totalTaxpayers),
        avgCompliance |-> Quot(WeightedSum(rows), totalTaxpayers),
        chartData |-> <<[labels |-> [i \in 1..Len(rows) |-> rows[i].region],
                         data |-> [i \in 1..Len(rows) |-> rows[i].taxpayers]]>>,
        regionalMetrics |-> rows]

Aggregate(rows) ==
    LET totalTaxpayers == SumOf(rows, "taxpayers")
        totalTax == SumOf(rows, "totalTax")
    IN [totalTaxpayers |-> totalTaxpayers,
        totalTax |-> totalTax,
        avgTax |-> IF JsGt(totalTaxpayers, Num(0)) THEN Quot(totalTax, totalTaxpayers) ELSE Zero,
        avgCompliance |-> IF JsGt(totalTaxpayers, Num(0))
                          THEN Quot(WeightedSum(rows), totalTaxpayers) ELSE Zero,
        chartData |-> <<[labels |-> [i \in 1..Len(rows) |-> rows[i].region],
                         data |-> [i \in 1..Len(rows) |-> rows[i].taxpayers]]>>,
        regionalMetrics |-> rows]

\* useState({ key: "taxpayers", direction: "desc" })
InitialSortConfig == [key |-> "taxpayers", direction |-> "desc"]
\* useState({})
InitialTaxSources ==
    [totalSalaryTaxpayers |-> Undef, totalEVatTaxpayers |-> Undef,
     totalOtherTaxpayers |-> Undef, regions |-> << >>]

\* useState({ regionalMetrics: [], chartData: null })
InitialMetrics ==
    [totalTaxpayers |-> Undef, totalTax |-> Undef,
     avgTax |-> Quot(Undef, Undef), avgCompliance |-> Quot(Undef, Undef),
     chartData |-> << >>, regionalMetrics |-> << >>]

\* the rows fetchRegions derives from a collection snapshot
Dashboard_regionalMetrics(docs, year, edits) ==
    [i \in 1..Len(RegionOrder) |->
        LET region == RegionOrder[i]
            yearData == FindYear(docs[region], year)
            edited == edits[<<region, year>>]
        IN Spread(Spread(With(EmptyObj, "region", region), yearData), edited)]

\* ------------------------------------------------------------------------
\* Edit Reconciler (Dashboard)
\* ------------------------------------------------------------------------
Check(cond, msg) == IF cond THEN <<msg>> ELSE << >>
\* variant: a single message is let through
HasErrors_offByOne(errors) == Len(errors) > 1
\* errors.length > 0
HasErrors(errors) == Len(errors) > 0

validateEdit(data) ==
    Check(JsLt(data.taxpayers, Num(0)), "Taxpayers cannot be negative.")
    \o Check(JsLt(data.averageTax, Num(0)), "Average Tax cannot be negative.")
    \o Check(JsLt(data.totalTax, Num(0)), "Total Tax cannot be negative.")
    \o Check(JsLt(data.salaryTaxpayers, Num(0)), "Salary Taxpayers cannot be negative.")
    \o Check(JsLt(data.eVatTaxpayers, Num(0)), "E-VAT Taxpayers cannot be negative.")
    \o Check(JsLt(data.otherTaxpayers, Num(0)), "Other Taxpayers cannot be negative.")
    \o Check(JsLt(data.complianceRate, Num(0)) \/ JsGt(data.complianceRate, Num(Scale)),
             "Compliance Rate must be between 0 and 100%.")
    \o Check(JsGt(JsAdd(JsAdd(data.salaryTaxpayers, data.eVatTaxpayers), data.otherTaxpayers),
                  data.taxpayers),
             "Sum of Salary, E-VAT, and Other Taxpayers cannot exceed Total Taxpayers.")

\* a row of the table is shown for the region under edit
RowShown(m, e) ==
    e # << >> /\ \E i \in 1..Len(m.regionalMetrics) : m.regionalMetrics[i].region = e[1].region
InputRendered == ~loading /\ RowShown(metrics, isEditing)
\* the inline input was focused when the table was taken off the screen
Unmounting == view = "Dashboard" /\ focused /\ loading

\* focus after a request settles: a remounted input takes the focus (autoFocus)
FocusAfter(m, e) == IF RowShown(m, e) THEN (loading \/ focused) ELSE FALSE

\* variant: a new fetch cancels the fetches still outstanding
Dashboard_fetchEffect_cancelling(year, edits) ==
    /\ loading' = TRUE
    /\ error' = << >>
    /\ tasks' = Append(SelectSeq(tasks, LAMBDA t : t.kind # "fetch"), FetchTask(year, edits))

\* the fetch effect of the Dashboard, run when selectedYear or editedData changed
Dashboard_fetchEffect(year, edits) ==
    /\ loading' = TRUE
    /\ error' = << >>
    /\ tasks' = Append(tasks, FetchTask(year, edits))

Did(op, result) == last' = [op |-> op, result |-> result, text |-> << >>]
Typed(field, value) == last' = [op |-> "handleEditChange", result |-> field, text |-> value]
EventKinds == {"select", "start", "type", "save", "click", "pick",
               "search", "tab", "sort", "export", "other"}
MaxOf(kind) == CASE kind = "select" -> MaxSelects [] kind = "start" -> MaxStarts
                 [] kind = "type" -> MaxTyped [] kind = "save" -> MaxSaves
                 [] kind = "pick" -> MaxPicks [] kind = "search" -> MaxSearches
                 [] kind = "tab" -> MaxTabs [] kind = "sort" -> MaxSorts
                 [] kind = "export" -> MaxExports
                 [] kind = "other" -> MaxOthers [] OTHER -> MaxClicks
UserEvent(kind) ==
    /\ events[kind] < MaxOf(kind)
    /\ events' = [events EXCEPT ![kind] = @ + 1]
    /\ UNCHANGED <<fails, others>>
\* a user event that issues a store request
Request == Len(tasks) < MaxInFlight
Settled == UNCHANGED <<events, fails, others>>
Failed == fails < MaxFailures /\ fails' = fails + 1 /\ UNCHANGED <<events, others>>

\* ------------------------------------------------------------------------
\* Dashboard: user events
\* ------------------------------------------------------------------------
\* the year <select>: setSelectedYear, then the fetch effect
Dashboard_selectYear(y) ==
    /\ view = "Dashboard" /\ ~Unmounting /\ ~focused
    /\ y # selectedYear
    /\ UserEvent("select") /\ Request
    /\ selectedYear' = y
    /\ Dashboard_fetchEffect(y, editedData)
    /\ Did("selectYear", "")
    /\ UNCHANGED <<view, blurOnRemoval, viewVars, store, saveError, dashboardVars, regionalVars>>

\* a click on a cell of the table
startEditing(i, field) ==
    LET region == metrics.regionalMetrics[i]
        key == <<region.region, selectedYear>>
    IN /\ view = "Dashboard" /\ ~loading /\ ~focused
       /\ isEditing # <<[region |-> region.region, field |-> field]>>
       /\ UserEvent("start") /\ Request
       /\ isEditing' = <<[region |-> region.region, field |-> field]>>
       /\ editedData' = [editedData EXCEPT ![key] = Spread(@, region)]
       /\ saveError' = << >>
       /\ focused' = TRUE
       /\ Dashboard_fetchEffect(selectedYear, editedData')
       /\ Did("startEditing", "")
       /\ UNCHANGED <<view, blurOnRemoval, viewVars, store, selectedYear, metrics, regionalVars>>

Dashboard_parse(field, value) ==
    IF field = "complianceRate" THEN Div100(parseFloat(value))
    ELSE OrZero(parseInt(StripCommas(value)))

\* typing in the inline input
Dashboard_handleEditChange(value) ==
    LET field == isEditing[1].field
        key == <<isEditing[1].region, selectedYear>>
    IN /\ view = "Dashboard" /\ InputRendered /\ focused
       /\ UserEvent("type") /\ Request
       /\ value \in RawInputs(field)
       /\ editedData' = [editedData EXCEPT ![key] = With(@, field, Dashboard_parse(field, value))]
       /\ Dashboard_fetchEffect(selectedYear, editedData')
       /\ Typed(field, value)
       /\ UNCHANGED <<view, blurOnRemoval, viewVars, store, selectedYear, saveError, metrics, isEditing, focused, regionalVars>>

\* saveEdits up to its first await
Dashboard_saveEdits ==
    LET editKey == <<isEditing[1].region, selectedYear>>
        editedRegionData == editedData[editKey]
        errors == validateEdit(editedRegionData)
    IN IF isEditing = << >>
       THEN Did("saveEdits", "idle") /\ UNCHANGED <<isEditing, saveError, loading, tasks>>
       ELSE IF editedRegionData = EmptyObj
       THEN /\ isEditing' = << >>
            /\ Did("saveEdits", "closed")
            /\ UNCHANGED <<saveError, loading, tasks>>
       ELSE IF HasErrors(errors)
       THEN /\ saveError' = errors
            /\ Did("saveEdits", "invalid")
            /\ UNCHANGED <<isEditing, loading, tasks>>
       ELSE /\ loading' = TRUE
            /\ saveError' = << >>
            /\ tasks' = Append(tasks, ReadTask(isEditing[1].region, selectedYear, editedRegionData))
            /\ Did("saveEdits", "started")
            /\ UNCHANGED isEditing

\* onKeyPress: Enter
Dashboard_pressEnter ==
    /\ view = "Dashboard" /\ InputRendered /\ focused
    /\ UserEvent("save") /\ Request
    /\ Dashboard_saveEdits
    /\ focused' = (isEditing' # << >>)
    /\ UNCHANGED <<view, blurOnRemoval, viewVars, store, selectedYear, error, metrics, editedData, regionalVars>>

\* onBlur: the user leaves the input
Dashboard_blur ==
    /\ view = "Dashboard" /\ InputRendered /\ focused
    /\ UserEvent("save") /\ Request
    /\ Dashboard_saveEdits
    /\ focused' = FALSE
    /\ UNCHANGED <<view, blurOnRemoval, viewVars, store, selectedYear, error, metrics, editedData, regionalVars>>

\* the focused input is removed because loading became true: whether the
\* browser delivers a blur for a removed element is not defined by the code
Dashboard_unmountBlur ==
    /\ Unmounting /\ blurOnRemoval
    /\ Dashboard_saveEdits
    /\ focused' = FALSE
    /\ Settled
    /\ UNCHANGED <<view, blurOnRemoval, viewVars, store, selectedYear, error, metrics, editedData, regionalVars>>

Dashboard_unmountQuiet ==
    /\ Unmounting /\ ~blurOnRemoval
    /\ focused' = FALSE
    /\ Did("unmount", "")
    /\ Settled
    /\ UNCHANGED <<view, blurOnRemoval, viewVars, store, tasks, common, metrics, editedData, isEditing, regionalVars>>

\* a click into the rendered input
Dashboard_focusInput ==
    /\ view = "Dashboard" /\ InputRendered /\ ~focused
    /\ UserEvent("click")
    /\ focused' = TRUE
    /\ Did("focus", "")
    /\ UNCHANGED <<view, blurOnRemoval, viewVars, store, tasks, common, metrics, editedData, isEditing, regionalVars>>

\* ------------------------------------------------------------------------
\* Dashboard: store requests settle
\* ------------------------------------------------------------------------
Dashboard_fetchResolved(i) ==
    LET t == tasks[i]
    IN /\ view = "Dashboard" /\ ~Unmounting
       /\ t.kind = "fetch"
       /\ \E rows \in {Dashboard_regionalMetrics(store, t.year, t.edits)} :
             metrics' = Aggregate(rows)
       /\ loading' = FALSE
       /\ focused' = FocusAfter(metrics', isEditing)
       /\ tasks' = Remove(tasks, i)
       /\ Did("fetch", "resolved")
       /\ Settled
       /\ UNCHANGED <<view, blurOnRemoval, viewVars, store, selectedYear, error, saveError, editedData, isEditing, regionalVars>>

Dashboard_fetchRejected(i) ==
    /\ view = "Dashboard" /\ ~Unmounting
    /\ tasks[i].kind = "fetch"
    /\ error' = FetchFailed
    /\ loading' = FALSE
    /\ focused' = FocusAfter(metrics, isEditing)
    /\ tasks' = Remove(tasks, i)
    /\ Did("fetch", "rejected")
    /\ Failed
    /\ UNCHANGED <<view, blurOnRemoval, viewVars, store, selectedYear, saveError, metrics, editedData, isEditing, regionalVars>>

\* getDocs of saveEdits resolved: build the series and issue updateDoc
Dashboard_readResolved(i) ==
    LET t == tasks[i]
    IN /\ view = "Dashboard" /\ ~Unmounting
       /\ t.kind = "read"
       /\ tasks' = [tasks EXCEPT ![i] = WriteTask(t.region, t.year, t.cand, store[t.region])]
       /\ Did("saveEdits", "read")
       /\ Settled
       /\ UNCHANGED <<view, blurOnRemoval, viewVars, store, common, dashboardVars, regionalVars>>

\* variant: the failure path closes the editor as the success path does
Dashboard_saveRejected_closing(i) ==
    /\ view = "Dashboard" /\ ~Unmounting
    /\ tasks[i].kind \in {"read", "write"}
    /\ saveError' = SaveFailed
    /\ isEditing' = << >>
    /\ loading' = FALSE
    /\ focused' = FALSE
    /\ tasks' = Remove(tasks, i)
    /\ Did("saveEdits", "failed")
    /\ Failed
    /\ UNCHANGED <<view, blurOnRemoval, viewVars, store, selectedYear, error, metrics, editedData, regionalVars>>

\* variant: the failure path leaves loading as it is
Dashboard_saveRejected_busy(i) ==
    /\ view = "Dashboard" /\ ~Unmounting
    /\ tasks[i].kind \in {"read", "write"}
    /\ saveError' = SaveFailed
    /\ loading' = loading
    /\ focused' = FocusAfter(metrics, isEditing)
    /\ tasks' = Remove(tasks, i)
    /\ Did("saveEdits", "failed")
    /\ Failed
    /\ UNCHANGED <<view, blurOnRemoval, viewVars, store, selectedYear, error, metrics, editedData, isEditing, regionalVars>>

\* the catch and finally blocks of saveEdits
Dashboard_saveRejected(i) ==
    /\ view = "Dashboard" /\ ~Unmounting
    /\ tasks[i].kind \in {"read", "write"}
    /\ saveError' = SaveFailed
    /\ loading' = FALSE
    /\ focused' = FocusAfter(metrics, isEditing)
    /\ tasks' = Remove(tasks, i)
    /\ Did("saveEdits", "failed")
    /\ Failed
    /\ UNCHANGED <<view, blurOnRemoval, viewVars, store, selectedYear, error, metrics, editedData, isEditing, regionalVars>>

\* variant: the write is applied to the series the store holds by then
Dashboard_writeResolved_merging(i) ==
    LET t == tasks[i]
        prev == metrics
        updatedRegionalMetrics ==
            [j \in 1..Len(prev.regionalMetrics) |->
                IF prev.regionalMetrics[j].region = t.region
                THEN With(t.cand, "region", prev.regionalMetrics[j].region)
                ELSE prev.regionalMetrics[j]]
    IN /\ view = "Dashboard" /\ ~Unmounting
       /\ t.kind = "write"
       /\ store' = [store EXCEPT ![t.region] = UpdatedYearlyData(@, t.year, t.cand)]
       /\ metrics' = Aggregate(updatedRegionalMetrics)
       /\ isEditing' = << >>
       /\ loading' = FALSE
       /\ focused' = FALSE
       /\ tasks' = Remove(tasks, i)
       /\ Did("saveEdits", "saved")
       /\ Settled
       /\ UNCHANGED <<view, blurOnRemoval, viewVars, selectedYear, error, saveError, editedData, regionalVars>>

\* updateDoc resolved: the local update of saveEdits
Dashboard_writeResolved(i) ==
    LET t == tasks[i]
        prev == metrics
    IN /\ view = "Dashboard" /\ ~Unmounting
       /\ t.kind = "write"
       /\ store' = [store EXCEPT ![t.region] = t.payload]
       /\ \E updatedRegionalMetrics \in
                {[j \in 1..Len(prev.regionalMetrics) |->
                     IF prev.regionalMetrics[j].region = t.region
                     THEN With(t.cand, "region", prev.regionalMetrics[j].region)
                     ELSE prev.regionalMetrics[j]]} :
             metrics' = Aggregate(updatedRegionalMetrics)
       /\ isEditing' = << >>
       /\ loading' = FALSE
       /\ focused' = FALSE
       /\ tasks' = Remove(tasks, i)
       /\ Did("saveEdits", "saved")
       /\ Settled
       /\ UNCHANGED <<view, blurOnRemoval, viewVars, selectedYear, error, saveError, editedData, regionalVars>>

\* ------------------------------------------------------------------------
\* RegionalAnalysis (Firestore-backed)
\* ------------------------------------------------------------------------
InitialRegionalData == [regions |-> << >>, chartData |-> << >>]

RegionalAnalysis_chartData(rows) ==
    <<[labels |-> [i \in 1..Len(rows) |-> rows[i].region],
       averageTax |-> [i \in 1..Len(rows) |-> rows[i].averageTax],
       compliance |-> [i \in 1..Len(rows) |-> JsMul(rows[i].complianceRate, Num(100 * Scale))]]>>

\* the rows fetchRegions derives from a collection snapshot
RegionalAnalysis_processedRegions(docs, year) ==
    [i \in 1..Len(RegionOrder) |->
        Spread(With(EmptyObj, "region", RegionOrder[i]), FindYear(docs[RegionOrder[i]], year))]

RECURSIVE InsertByCompliance(_, _)
\* r put behind every row that does not rank after it
InsertByCompliance(sorted, r) ==
    IF sorted = << >> THEN <<r>>
    ELSE IF JsLt(Head(sorted).complianceRate, r.complianceRate)
         THEN <<r>> \o sorted
         ELSE <<Head(sorted)>> \o InsertByCompliance(Tail(sorted), r)

RECURSIVE SortByCompliance(_)
\* rows.sort((a, b) => b.complianceRate - a.complianceRate): stable, descending
SortByCompliance(rows) ==
    IF rows = << >> THEN << >>
    ELSE InsertByCompliance(SortByCompliance(SubSeq(rows, 1, Len(rows) - 1)), rows[Len(rows)])

\* rendering the detail panel sorts regionalData.regions in place
Rendered(data, isLoading, selected) ==
    IF ~isLoading /\ selected # << >>
    THEN [data EXCEPT !.regions = SortByCompliance(@)]
    ELSE data

validateForm(form) ==
    Check(JsLt(form.taxpayers, Num(0)), "Taxpayers cannot be negative.")
    \o Check(JsLt(form.averageTax, Num(0)), "Average Tax cannot be negative.")
    \o Check(JsLt(form.totalTax, Num(0)), "Total Tax cannot be negative.")
    \o Check(JsLt(form.salaryTaxpayers, Num(0)), "Salary Taxpayers cannot be negative.")
    \o Check(JsLt(form.eVatTaxpayers, Num(0)), "E-VAT Taxpayers cannot be negative.")
    \o Check(JsLt(form.otherTaxpayers, Num(0)), "Other Taxpayers cannot be negative.")
    \o Check(JsLt(form.complianceRate, Num(0)) \/ JsGt(form.complianceRate, Num(Scale)),
             "Compliance Rate must be between 0 and 1.")
    \o Check(JsGt(JsAdd(JsAdd(form.salaryTaxpayers, form.eVatTaxpayers), form.otherTaxpayers),
                  form.taxpayers),
             "Sum of Salary, E-VAT, and Other Taxpayers cannot exceed Total Taxpayers.")

\* the fetch effect of RegionalAnalysis, run when selectedYear changed
RegionalAnalysis_fetchEffect(year) ==
    /\ loading' = TRUE
    /\ error' = << >>
    /\ tasks' = Append(tasks, FetchTask(year, NoEdits))

PanelShown == view = "RegionalAnalysis" /\ ~loading /\ selectedRegion # << >>

RegionalAnalysis_selectYear(y) ==
    /\ view = "RegionalAnalysis"
    /\ y # selectedYear
    /\ UserEvent("select") /\ Request
    /\ selectedYear' = y
    /\ RegionalAnalysis_fetchEffect(y)
    /\ Did("selectYear", "")
    /\ UNCHANGED <<view, blurOnRemoval, viewVars, store, saveError, dashboardVars, regionalVars>>

\* a click on a row of the regions table
handleRegionClick(i) ==
    /\ view = "RegionalAnalysis" /\ ~loading
    /\ UserEvent("pick")
    /\ selectedRegion' =
          <<RegionalAnalysis_filteredRegions(regionalData.regions, activeTab, searchQuery)[i]>>
    /\ editMode' = FALSE
    /\ editForm' = << >>
    /\ regionalData' = Rendered(regionalData, loading, selectedRegion')
    /\ Did("handleRegionClick", "")
    /\ UNCHANGED <<view, blurOnRemoval, viewVars, store, tasks, common, dashboardVars, saving>>

clearSelection ==
    /\ PanelShown
    /\ UserEvent("click")
    /\ selectedRegion' = << >>
    /\ editMode' = FALSE
    /\ editForm' = << >>
    /\ Did("clearSelection", "")
    /\ UNCHANGED <<view, blurOnRemoval, viewVars, store, tasks, common, dashboardVars, regionalData, saving>>

enterEditMode ==
    /\ PanelShown /\ ~editMode
    /\ UserEvent("start")
    /\ editMode' = TRUE
    /\ editForm' = <<[k \in Keys |-> IF k \in FieldSet THEN selectedRegion[1][k] ELSE EmptyObj[k]]>>
    /\ saveError' = << >>
    /\ Did("enterEditMode", "")
    /\ UNCHANGED <<view, blurOnRemoval, viewVars, store, tasks, selectedYear, loading, error,
                   dashboardVars, regionalData, selectedRegion, saving>>

\* the value an <input type="number"> reports: the text when it is a number, "" otherwise
NumberInput(text) ==
    LET l == Literal(text, TRUE) IN IF l.ok /\ l.len = Len(text) THEN text ELSE << >>

\* value === "" ? "" : parseFloat(value) || 0
RegionalAnalysis_parse(value) == IF value = << >> THEN EmptyStr ELSE OrZero(parseFloat(value))

\* a change of an input of the edit form
RegionalAnalysis_handleEditChange(field, value) ==
    /\ PanelShown /\ editMode
    /\ UserEvent("type")
    /\ value \in RawInputs(field)
    /\ editForm' = <<With(editForm[1], field, RegionalAnalysis_parse(NumberInput(value)))>>
    /\ Typed(field, value)
    /\ UNCHANGED <<view, blurOnRemoval, viewVars, store, tasks, common, dashboardVars,
                   regionalData, selectedRegion, editMode, saving>>

\* the Save button: saveEdits up to its first await
RegionalAnalysis_saveEdits ==
    LET errors == validateForm(editForm[1])
    IN /\ PanelShown /\ editMode /\ ~saving
       /\ UserEvent("save") /\ Request
       /\ IF HasErrors(errors)
          THEN /\ saveError' = errors
               /\ Did("saveEdits", "invalid")
               /\ UNCHANGED <<saving, tasks>>
          ELSE /\ saving' = TRUE
               /\ saveError' = << >>
               /\ tasks' = Append(tasks, ReadTask(selectedRegion[1].region, selectedYear, editForm[1]))
               /\ Did("saveEdits", "started")
       /\ UNCHANGED <<view, blurOnRemoval, viewVars, store, selectedYear, loading, error, dashboardVars,
                      regionalData, selectedRegion, editMode, editForm>>

\* the Cancel button
cancelEdit ==
    /\ PanelShown /\ editMode /\ ~saving
    /\ UserEvent("click")
    /\ editMode' = FALSE
    /\ editForm' = << >>
    /\ saveError' = << >>
    /\ Did("cancelEdit", "")
    /\ UNCHANGED <<view, blurOnRemoval, viewVars, store, tasks, selectedYear, loading, error,
                   dashboardVars, regionalData, selectedRegion, saving>>

RegionalAnalysis_fetchResolved(i) ==
    LET t == tasks[i]
    IN /\ view = "RegionalAnalysis"
       /\ t.kind = "fetch"
       /\ loading' = FALSE
       /\ \E processedRegions \in {RegionalAnalysis_processedRegions(store, t.year)} :
             regionalData' = Rendered([regions |-> processedRegions,
                                       chartData |-> RegionalAnalysis_chartData(processedRegions)],
                                      FALSE, selectedRegion)
       /\ tasks' = Remove(tasks, i)
       /\ Did("fetch", "resolved")
       /\ Settled
       /\ UNCHANGED <<view, blurOnRemoval, viewVars, store, selectedYear, error, saveError, dashboardVars,
                      selectedRegion, editMode, editForm, saving>>

RegionalAnalysis_fetchRejected(i) ==
    /\ view = "RegionalAnalysis"
    /\ tasks[i].kind = "fetch"
    /\ error' = FetchFailed
    /\ loading' = FALSE
    /\ regionalData' = Rendered(regionalData, loading', selectedRegion)
    /\ tasks' = Remove(tasks, i)
    /\ Did("fetch", "rejected")
    /\ Failed
    /\ UNCHANGED <<view, blurOnRemoval, viewVars, store, selectedYear, saveError, dashboardVars,
                   selectedRegion, editMode, editForm, saving>>

\* getDocs of saveEdits resolved: build the series and issue updateDoc
RegionalAnalysis_readResolved(i) ==
    LET t == tasks[i]
    IN /\ view = "RegionalAnalysis"
       /\ t.kind = "read"
       /\ tasks' = [tasks EXCEPT ![i] = WriteTask(t.region, t.year, t.cand, store[t.region])]
       /\ Did("saveEdits", "read")
       /\ Settled
       /\ UNCHANGED <<view, blurOnRemoval, viewVars, store, common, dashboardVars, regionalVars>>

\* the catch and finally blocks of saveEdits
RegionalAnalysis_saveRejected(i) ==
    /\ view = "RegionalAnalysis"
    /\ tasks[i].kind \in {"read", "write"}
    /\ saveError' = SaveFailed
    /\ saving' = FALSE
    /\ tasks' = Remove(tasks, i)
    /\ Did("saveEdits", "failed")
    /\ Failed
    /\ UNCHANGED <<view, blurOnRemoval, viewVars, store, selectedYear, loading, error, dashboardVars,
                   regionalData, selectedRegion, editMode, editForm>>

\* updateDoc resolved: the local update of saveEdits
RegionalAnalysis_writeResolved(i) ==
    LET t == tasks[i]
        prev == regionalData
    IN /\ view = "RegionalAnalysis"
       /\ t.kind = "write"
       /\ store' = [store EXCEPT ![t.region] = t.payload]
       /\ selectedRegion' = <<With(t.cand, "region", t.region)>>
       /\ editMode' = FALSE
       /\ editForm' = << >>
       /\ saving' = FALSE
       /\ \E updatedRegions \in
                {[j \in 1..Len(prev.regions) |->
                     IF prev.regions[j].region = t.region
                     THEN With(t.cand, "region", prev.regions[j].region)
                     ELSE prev.regions[j]]} :
             regionalData' = Rendered([regions |-> updatedRegions,
                                       chartData |-> RegionalAnalysis_chartData(updatedRegions)],
                                      loading, selectedRegion')
       /\ tasks' = Remove(tasks, i)
       /\ Did("saveEdits", "saved")
       /\ Settled
       /\ UNCHANGED <<view, blurOnRemoval, viewVars, selectedYear, loading, error, saveError, dashboardVars>>

\* ------------------------------------------------------------------------
\* Another session of the application on the same collection
\* ------------------------------------------------------------------------
\* the record the other session commits
OtherRecord == YearRecord(0, 9, 1, 9, 4, 3, 2, 70)

\* a commit of another session lands in the store: the series it read with
\* its record for the year replaced or appended (its read and its write
\* with nothing in between)
otherSession(region, year) ==
    /\ view \in {"Dashboard", "RegionalAnalysis"}
    /\ events["other"] < MaxOthers
    /\ events' = [events EXCEPT !["other"] = @ + 1]
    /\ store' = [store EXCEPT ![region] = UpdatedYearlyData(@, year, OtherRecord)]
    /\ others' = Append(others, [region |-> region, year |-> year])
    /\ UNCHANGED <<view, blurOnRemoval, viewVars, tasks, fails, last, common, dashboardVars,
                   regionalVars>>

\* ------------------------------------------------------------------------
\* The static dataset and the components that read it
\* ------------------------------------------------------------------------
StaticRegion(name, tp, avg, tot, sal, ev, oth, crPercent) ==
    [YearRecord(0, tp, avg, tot, sal, ev, oth, crPercent)
        EXCEPT !.region = name, !.year = Undef]

\* data.regions: one flat record per region, no yearlyData array
StaticData ==
    <<StaticRegion("Ab", 10, 2, 20, 5, 3, 2, 50),
      StaticRegion("Ba", 20, 3, 60, 10, 6, 4, 80),
      StaticRegion("C", 4, 1, 4, 2, 1, 1, 30)>>

\* variant: the E-VAT total adds the salary counters
TaxSourceBreakdown_totals_salaryTwice(regions) ==
    [totalSalaryTaxpayers |-> SumOf(regions, "salaryTaxpayers"),
     totalEVatTaxpayers |-> SumOf(regions, "salaryTaxpayers"),
     totalOtherTaxpayers |-> SumOf(regions, "otherTaxpayers"),
     regions |-> regions]
\* the mount effect of TaxSourceBreakdown: the three totals and the regions
TaxSourceBreakdown_totals(regions) ==
    [totalSalaryTaxpayers |-> SumOf(regions, "salaryTaxpayers"),
     totalEVatTaxpayers |-> SumOf(regions, "eVatTaxpayers"),
     totalOtherTaxpayers |-> SumOf(regions, "otherTaxpayers"),
     regions |-> regions]

\* ------------------------------------------------------------------------
\* Sorting the Dashboard table
\* ------------------------------------------------------------------------
SortKeys == {"region", "taxpayers", "complianceRate"}

\* collation rank of a letter: case does not decide between different letters
LetterRank(c) == CASE c \in {"a", "A"} -> 1 [] c \in {"b", "B"} -> 2
                   [] c \in {"c", "C"} -> 3 [] OTHER -> 4

RECURSIVE localeCompare(_, _)
\* x.localeCompare(y) on names: negative, zero or positive
localeCompare(x, y) ==
    IF x = << >> /\ y = << >> THEN 0
    ELSE IF x = << >> THEN 0 - 1
    ELSE IF y = << >> THEN 1
    ELSE IF LetterRank(Head(x)) < LetterRank(Head(y)) THEN 0 - 1
    ELSE IF LetterRank(Head(x)) > LetterRank(Head(y)) THEN 1
    ELSE localeCompare(Tail(x), Tail(y))

\* the sign of a - b; 0 when the difference is NaN
SignOfDifference(a, b) ==
    LET x == ToNumber(a)
        y == ToNumber(b)
    IN IF x.t = "num" /\ y.t = "num"
       THEN (IF x.n < y.n THEN 0 - 1 ELSE IF x.n > y.n THEN 1 ELSE 0)
       ELSE 0

\* the comparator sortData hands to sort
Compare(a, b, key, direction) ==
    IF key = "region"
    THEN (IF direction = "asc" THEN localeCompare(Letters(a[key]), Letters(b[key]))
          ELSE localeCompare(Letters(b[key]), Letters(a[key])))
    ELSE (IF direction = "asc" THEN SignOfDifference(a[key], b[key])
          ELSE SignOfDifference(b[key], a[key]))

RECURSIVE InsertSorted(_, _, _, _)
\* r put in front of the first row the comparator places after it
InsertSorted(sorted, r, key, direction) ==
    IF sorted = << >> THEN <<r>>
    ELSE IF Compare(Head(sorted), r, key, direction) > 0
         THEN <<r>> \o sorted
         ELSE <<Head(sorted)>> \o InsertSorted(Tail(sorted), r, key, direction)

RECURSIVE SortBy(_, _, _)
\* [...rows].sort(comparator): stable
SortBy(rows, key, direction) ==
    IF rows = << >> THEN << >>
    ELSE InsertSorted(SortBy(SubSeq(rows, 1, Len(rows) - 1), key, direction),
                      rows[Len(rows)], key, direction)

\* whether the comparator is a consistent comparison function for the rows
Consistent(rows, key, direction) ==
    LET c == [i \in 1..Len(rows) |-> [j \in 1..Len(rows) |->
                 Compare(rows[i], rows[j], key, direction)]]
    IN \A i, j, k \in 1..Len(rows) :
          /\ (c[i][j] = 0 /\ c[j][k] = 0) => c[i][k] = 0
          /\ (c[i][j] < 0 /\ c[j][k] < 0) => c[i][k] < 0
          /\ (c[i][j] > 0 /\ c[j][k] > 0) => c[i][k] > 0
          /\ (c[i][j] < 0) <=> (c[j][i] > 0)
          /\ (c[i][j] = 0) => c[j][i] = 0

\* the arrays sort may return: the stable order of a consistent comparator,
\* otherwise an order the engine is free to choose
Sorts(rows, key, direction) ==
    IF Consistent(rows, key, direction) THEN {SortBy(rows, key, direction)}
    ELSE {[i \in 1..Len(rows) |-> rows[f[i]]] : f \in Permutations(1..Len(rows))}

\* sortConfig.key === key && sortConfig.direction === "asc" ? "desc" : "asc"
NextDirection(config, key) ==
    IF config.key = key /\ config.direction = "asc" THEN "desc" ELSE "asc"

\* ------------------------------------------------------------------------
\* CSV exporter
\* ------------------------------------------------------------------------
RECURSIVE Join(_, _)
\* parts.join(sep)
Join(parts, sep) ==
    IF parts = << >> THEN << >>
    ELSE IF Len(parts) = 1 THEN parts[1]
    ELSE parts[1] \o <<sep>> \o Join(Tail(parts), sep)

\* v.toLocaleString("en-US", { useGrouping: false }) throws on undefined
Throws(v) == v.t = "undef"
\* v.toLocaleString("en-US", { useGrouping: false }): at most three decimals
toLocaleString(v) ==
    CASE v.t = "num" ->
            LET a == IF v.n < 0 THEN 0 - v.n ELSE v.n
                r == (a + 5) \div 10
            IN (IF v.n < 0 THEN <<"-">> ELSE << >>) \o NatToStr(r \div 1000)
               \o (IF r % 1000 = 0 THEN << >> ELSE <<".">> \o FracToStr(r % 1000, 3))
      [] v.t = "str" -> v.s
      [] OTHER -> <<"N", "a", "N">>

\* x.toFixed(1)
toFixed(x) ==
    IF x.t = "num"
    THEN LET a == IF x.n < 0 THEN 0 - x.n ELSE x.n
             r == (a + 500) \div 1000
         IN (IF x.n < 0 THEN <<"-">> ELSE << >>) \o NatToStr(r \div 10)
            \o <<".", DigitChar[(r % 10) + 1]>>
    ELSE <<"N", "a", "N">>

\* (region.complianceRate * 100).toFixed(1)
CompliancePercent(region) == toFixed(JsMul(region.complianceRate, Num(100 * Scale)))

\* ((part / whole) * 100).toFixed(1)
SharePercent(part, whole) ==
    LET x == ToNumber(part)
        y == ToNumber(whole)
    IN IF x.t # "num" \/ y.t # "num" THEN <<"N", "a", "N">>
       ELSE IF y.n = 0
            THEN (IF x.n = 0 THEN <<"N", "a", "N">>
                  ELSE (IF x.n < 0 THEN <<"-">> ELSE << >>) \o <<"Infinity">>)
            ELSE LET a == IF x.n < 0 THEN 0 - x.n ELSE x.n
                     b == IF y.n < 0 THEN 0 - y.n ELSE y.n
                     r == (2 * 1000 * a + b) \div (2 * b)
                 IN (IF (x.n < 0) # (y.n < 0) THEN <<"-">> ELSE << >>)
                    \o NatToStr(r \div 10) \o <<".", DigitChar[(r % 10) + 1]>>

\* the condition of `value ? a : b`
Truthy(v) == v.t \in {"num", "str"} /\ v # Num(0) /\ v # EmptyStr

\* `"${region.region}"`
Quoted(name) == <<"\"">> \o Letters(name) \o <<"\"">>

\* [headers.join(","), ...rows.map((row) => row.join(","))].join("\n")
CsvContent(headers, rows) ==
    Join(<<Join(headers, ",")>> \o [i \in 1..Len(rows) |-> Join(rows[i], ",")], "\n")

\* the file handed to the browser by link.click(); the date is left out of the name
File(name, headers, rows) == [name |-> name, content |-> CsvContent(headers, rows)]

Dashboard_headers ==
    <<<<"Region">>, <<"Year">>, <<"Taxpayers">>, <<"Avg. Tax (GHS)">>, <<"Total Tax (GHS)">>,
      <<"Salary Taxpayers">>, <<"eVAT Taxpayers">>, <<"Other Taxpayers">>, <<"Compliance (%)">>>>
Dashboard_row(region, year) ==
    <<Quoted(region.region), NatToStr(year),
      toLocaleString(region.taxpayers), toLocaleString(region.averageTax),
      toLocaleString(region.totalTax), toLocaleString(region.salaryTaxpayers),
      toLocaleString(region.eVatTaxpayers), toLocaleString(region.otherTaxpayers),
      CompliancePercent(region)>>
Dashboard_rowThrows(region) ==
    \E k \in {"taxpayers", "averageTax", "totalTax", "salaryTaxpayers",
              "eVatTaxpayers", "otherTaxpayers"} : Throws(region[k])

RegionalAnalysis_headers ==
    <<<<"Region">>, <<"Year">>, <<"Taxpayers">>, <<"Avg. Tax (GHS)">>, <<"Total Tax (GHS)">>,
      <<"Compliance (%)">>, <<"Salary (%)">>, <<"E-VAT (%)">>>>
RegionalAnalysis_row(region, year) ==
    <<Quoted(region.region), NatToStr(year),
      toLocaleString(region.taxpayers), toLocaleString(region.averageTax),
      toLocaleString(region.totalTax), CompliancePercent(region),
      IF Truthy(region.taxpayers) THEN SharePercent(region.salaryTaxpayers, region.taxpayers)
      ELSE <<"0", ".", "0">>,
      IF Truthy(region.taxpayers) THEN SharePercent(region.eVatTaxpayers, region.taxpayers)
      ELSE <<"0", ".", "0">>>>
RegionalAnalysis_rowThrows(region) ==
    \E k \in {"taxpayers", "averageTax", "totalTax"} : Throws(region[k])

Static_headers ==
    <<<<"Region">>, <<"Taxpayers">>, <<"Avg. Tax (GHS)">>, <<"Total Tax (GHS)">>,
      <<"Compliance (%)">>, <<"Salary (%)">>, <<"E-VAT (%)">>>>
Static_row(region) ==
    <<Quoted(region.region),
      toLocaleString(region.taxpayers), toLocaleString(region.averageTax),
      toLocaleString(region.totalTax), CompliancePercent(region),
      SharePercent(region.salaryTaxpayers, region.taxpayers),
      SharePercent(region.eVatTaxpayers, region.taxpayers)>>

TaxSourceBreakdown_headers ==
    <<<<"Region">>, <<"Salary Taxpayers">>, <<"E-VAT Taxpayers">>, <<"Other Taxpayers">>>>
TaxSourceBreakdown_row(region) ==
    <<Quoted(region.region), toLocaleString(region.salaryTaxpayers),
      toLocaleString(region.eVatTaxpayers), toLocaleString(region.otherTaxpayers)>>
TaxSourceBreakdown_rowThrows(region) ==
    \E k \in {"salaryTaxpayers", "eVatTaxpayers", "otherTaxpayers"} : Throws(region[k])

\* variant: the file is produced even when there is nothing to export
Export_always(filtered, threw, file) ==
    /\ alerts' = alerts
    /\ downloads' = Append(downloads, file)
    /\ Did("exportToCSV", "file")
\* exportToCSV: an alert when nothing is listed, otherwise one file
Export(filtered, threw, file) ==
    IF Len(filtered) = 0
    THEN /\ alerts' = alerts + 1
         /\ downloads' = downloads
         /\ Did("exportToCSV", "alert")
    ELSE IF threw
    THEN /\ UNCHANGED <<alerts, downloads>>
         /\ Did("exportToCSV", "threw")
    ELSE /\ UNCHANGED alerts
         /\ downloads' = Append(downloads, file)
         /\ Did("exportToCSV", "file")

\* ------------------------------------------------------------------------
\* Search, tabs, sorting and export: user events
\* ------------------------------------------------------------------------
\* the search box and the tabs are part of the table, which a loading
\* Dashboard or RegionalAnalysis does not render
TableShown == view \in {"Dashboard", "RegionalAnalysis"} => ~loading
HasTabs == view \in {"RegionalAnalysis", "StaticRegionalAnalysis"}

\* the list the component renders and exports
Filtered ==
    CASE view = "Dashboard" -> Dashboard_filteredMetrics(metrics.regionalMetrics, searchQuery)
      [] view = "TaxSourceBreakdown" ->
            TaxSourceBreakdown_filteredRegions(taxSources.regions, searchQuery)
      [] OTHER -> RegionalAnalysis_filteredRegions(regionalData.regions, activeTab, searchQuery)

\* onChange of the search box
setSearchQuery(query) ==
    /\ TableShown
    /\ query # searchQuery
    /\ UserEvent("search")
    /\ searchQuery' = query
    /\ Did("setSearchQuery", "")
    /\ UNCHANGED <<view, blurOnRemoval, store, tasks, common, dashboardVars, regionalVars,
                   activeTab, sortConfig, taxSources, alerts, downloads>>

\* the clear button inside a non-empty search box
clearSearch ==
    /\ TableShown
    /\ searchQuery # << >>
    /\ UserEvent("search")
    /\ searchQuery' = << >>
    /\ Did("clearSearch", "")
    /\ UNCHANGED <<view, blurOnRemoval, store, tasks, common, dashboardVars, regionalVars,
                   activeTab, sortConfig, taxSources, alerts, downloads>>

\* a click on one of the four tabs
setActiveTab(tab) ==
    /\ HasTabs /\ TableShown
    /\ UserEvent("tab")
    /\ activeTab' = tab
    /\ Did("setActiveTab", tab)
    /\ UNCHANGED <<view, blurOnRemoval, store, tasks, common, dashboardVars, regionalVars,
                   searchQuery, sortConfig, taxSources, alerts, downloads>>

\* a click on a column header of the Dashboard table; a focused inline
\* input loses the focus first
sortData(key) ==
    LET direction == NextDirection(sortConfig, key)
    IN /\ view = "Dashboard" /\ ~loading /\ ~focused
       /\ UserEvent("sort")
       /\ sortConfig' = [key |-> key, direction |-> direction]
       /\ \E sortedMetrics \in Sorts(metrics.regionalMetrics, key, direction) :
             metrics' = [metrics EXCEPT !.regionalMetrics = sortedMetrics]
       /\ Did("sortData", key)
       /\ UNCHANGED <<view, blurOnRemoval, store, tasks, common, editedData, isEditing, focused,
                      regionalVars, searchQuery, activeTab, taxSources, alerts, downloads>>

\* the export button of the Dashboard, rendered whether loading or not
Dashboard_exportToCSV ==
    /\ view = "Dashboard"
    /\ UserEvent("export")
    /\ Export(Filtered, \E i \in 1..Len(Filtered) : Dashboard_rowThrows(Filtered[i]),
              File(<<"taxpayer_data_">> \o NatToStr(selectedYear) \o <<".csv">>,
                   Dashboard_headers,
                   [i \in 1..Len(Filtered) |-> Dashboard_row(Filtered[i], selectedYear)]))
    /\ UNCHANGED <<view, blurOnRemoval, store, tasks, common, dashboardVars, regionalVars,
                   searchQuery, activeTab, sortConfig, taxSources>>

RegionalAnalysis_exportToCSV ==
    /\ view = "RegionalAnalysis" /\ ~loading
    /\ UserEvent("export")
    /\ Export(Filtered, \E i \in 1..Len(Filtered) : RegionalAnalysis_rowThrows(Filtered[i]),
              File(<<"regional_tax_data_">> \o NatToStr(selectedYear) \o <<".csv">>,
                   RegionalAnalysis_headers,
                   [i \in 1..Len(Filtered) |-> RegionalAnalysis_row(Filtered[i], selectedYear)]))
    /\ UNCHANGED <<view, blurOnRemoval, store, tasks, common, dashboardVars, regionalVars,
                   searchQuery, activeTab, sortConfig, taxSources>>

Static_exportToCSV ==
    /\ view = "StaticRegionalAnalysis"
    /\ UserEvent("export")
    /\ Export(Filtered, \E i \in 1..Len(Filtered) : RegionalAnalysis_rowThrows(Filtered[i]),
              File(<<"regional_tax_data", ".csv">>, Static_headers,
                   [i \in 1..Len(Filtered) |-> Static_row(Filtered[i])]))
    /\ UNCHANGED <<view, blurOnRemoval, store, tasks, common, dashboardVars, regionalVars,
                   searchQuery, activeTab, sortConfig, taxSources>>

TaxSourceBreakdown_exportToCSV ==
    /\ view = "TaxSourceBreakdown"
    /\ UserEvent("export")
    /\ Export(Filtered, \E i \in 1..Len(Filtered) : TaxSourceBreakdown_rowThrows(Filtered[i]),
              File(<<"tax_source_breakdown", ".csv">>, TaxSourceBreakdown_headers,
                   [i \in 1..Len(Filtered) |-> TaxSourceBreakdown_row(Filtered[i])]))
    /\ UNCHANGED <<view, blurOnRemoval, store, tasks, common, dashboardVars, regionalVars,
                   searchQuery, activeTab, sortConfig, taxSources>>

\* a click on a row of the static regions table; rendering the detail panel
\* sorts regionalData.regions in place
Static_handleRegionClick(i) ==
    /\ view = "StaticRegionalAnalysis"
    /\ UserEvent("pick")
    /\ selectedRegion' = <<Filtered[i]>>
    /\ regionalData' = Rendered(regionalData, FALSE, selectedRegion')
    /\ Did("handleRegionClick", "")
    /\ UNCHANGED <<view, blurOnRemoval, viewVars, store, tasks, common, dashboardVars,
                   editMode, editForm, saving>>

Static_clearSelection ==
    /\ view = "StaticRegionalAnalysis"
    /\ selectedRegion # << >>
    /\ UserEvent("click")
    /\ selectedRegion' = << >>
    /\ Did("clearSelection", "")
    /\ UNCHANGED <<view, blurOnRemoval, viewVars, store, tasks, common, dashboardVars,
                   regionalData, editMode, editForm, saving>>

\* ------------------------------------------------------------------------
\* Specification
\* ------------------------------------------------------------------------
\* the component has mounted and its fetch effect has issued the first getDocs
Init ==
    /\ \/ view = "Dashboard" /\ blurOnRemoval \in BOOLEAN
       \/ view = "RegionalAnalysis" /\ blurOnRemoval = FALSE
    /\ store = SeedStore
    /\ tasks = <<FetchTask(2025, NoEdits)>>
    /\ events = [k \in EventKinds |-> 0]
    /\ fails = 0
    /\ last = [op |-> "mount", result |-> "", text |-> << >>]
    /\ selectedYear = 2025
    /\ loading = TRUE
    /\ error = << >>
    /\ saveError = << >>
    /\ metrics = InitialMetrics
    /\ editedData = NoEdits
    /\ isEditing = << >>
    /\ focused = FALSE
    /\ regionalData = InitialRegionalData
    /\ selectedRegion = << >>
    /\ editMode = FALSE
    /\ editForm = << >>
    /\ saving = FALSE
    /\ searchQuery = << >>
    /\ activeTab = "all"
    /\ sortConfig = InitialSortConfig
    /\ taxSources = InitialTaxSources
    /\ alerts = 0
    /\ downloads = << >>
    /\ others = << >>

Next ==
    \/ \E y \in Years : Dashboard_selectYear(y)
    \/ \E i \in 1..Len(metrics.regionalMetrics), field \in EditedFields : startEditing(i, field)
    \/ \E value \in UNION {RawInputs(f) : f \in EditedFields} : Dashboard_handleEditChange(value)
    \/ Dashboard_pressEnter
    \/ Dashboard_blur
    \/ Dashboard_unmountBlur
    \/ Dashboard_unmountQuiet
    \/ Dashboard_focusInput
    \/ \E i \in 1..Len(tasks) : Dashboard_fetchResolved(i)
    \/ \E i \in 1..Len(tasks) : Dashboard_fetchRejected(i)
    \/ \E i \in 1..Len(tasks) : Dashboard_readResolved(i)
    \/ \E i \in 1..Len(tasks) : Dashboard_saveRejected(i)
    \/ \E i \in 1..Len(tasks) : Dashboard_writeResolved(i)
    \/ \E y \in Years : RegionalAnalysis_selectYear(y)
    \/ \E i \in 1..Len(regionalData.regions) : handleRegionClick(i)
    \/ clearSelection
    \/ enterEditMode
    \/ \E field \in EditedFields : \E value \in RawInputs(field) :
          RegionalAnalysis_handleEditChange(field, value)
    \/ RegionalAnalysis_saveEdits
    \/ cancelEdit
    \/ \E i \in 1..Len(tasks) : RegionalAnalysis_fetchResolved(i)
    \/ \E i \in 1..Len(tasks) : RegionalAnalysis_fetchRejected(i)
    \/ \E i \in 1..Len(tasks) : RegionalAnalysis_readResolved(i)
    \/ \E i \in 1..Len(tasks) : RegionalAnalysis_saveRejected(i)
    \/ \E i \in 1..Len(tasks) : RegionalAnalysis_writeResolved(i)

Spec == Init /\ [][Next]_vars

\* The same components with their search box, tabs, sortable headers and
\* export buttons, and the two components that read the static dataset; the
\* static components have run their mount effect.
StaticInit ==
    /\ view \in {"StaticRegionalAnalysis", "TaxSourceBreakdown"}
    /\ blurOnRemoval = FALSE
    /\ store = SeedStore
    /\ tasks = << >>
    /\ events = [k \in EventKinds |-> 0]
    /\ fails = 0
    /\ last = [op |-> "mount", result |-> "", text |-> << >>]
    /\ selectedYear = 2025
    /\ loading = FALSE
    /\ error = << >>
    /\ saveError = << >>
    /\ metrics = InitialMetrics
    /\ editedData = NoEdits
    /\ isEditing = << >>
    /\ focused = FALSE
    /\ regionalData = IF view = "StaticRegionalAnalysis"
                      THEN [regions |-> StaticData,
                            chartData |-> RegionalAnalysis_chartData(StaticData)]
                      ELSE InitialRegionalData
    /\ selectedRegion = << >>
    /\ editMode = FALSE
    /\ editForm = << >>
    /\ saving = FALSE
    /\ searchQuery = << >>
    /\ activeTab = "all"
    /\ sortConfig = InitialSortConfig
    /\ taxSources = IF view = "TaxSourceBreakdown"
                    THEN TaxSourceBreakdown_totals(StaticData)
                    ELSE InitialTaxSources
    /\ alerts = 0
    /\ downloads = << >>
    /\ others = << >>

ViewInit == (Init /\ ~blurOnRemoval) \/ StaticInit

ViewNext ==
    \/ \E y \in Years : Dashboard_selectYear(y)
    \/ \E i \in 1..Len(tasks) : Dashboard_fetchResolved(i)
    \/ \E i \in 1..Len(tasks) : Dashboard_fetchRejected(i)
    \/ \E y \in Years : RegionalAnalysis_selectYear(y)
    \/ \E i \in 1..Len(tasks) : RegionalAnalysis_fetchResolved(i)
    \/ \E i \in 1..Len(tasks) : RegionalAnalysis_fetchRejected(i)
    \/ \E i \in 1..Len(Filtered) : handleRegionClick(i)
    \/ clearSelection
    \/ \E query \in Queries : setSearchQuery(query)
    \/ clearSearch
    \/ \E tab \in Tabs : setActiveTab(tab)
    \/ \E key \in SortKeys : sortData(key)
    \/ Dashboard_exportToCSV
    \/ RegionalAnalysis_exportToCSV
    \/ Static_exportToCSV
    \/ TaxSourceBreakdown_exportToCSV
    \/ \E i \in 1..Len(Filtered) : Static_handleRegionClick(i)
    \/ Static_clearSelection

ViewSpec == ViewInit /\ [][ViewNext]_vars

\* The Dashboard on the year it mounted with, in a browser that removes a
\* focused input without a blur: the inline editor and the sortable headers
\* together.
SortInit == Init /\ view = "Dashboard" /\ ~blurOnRemoval

SortNext ==
    \/ \E i \in 1..Len(metrics.regionalMetrics), field \in EditedFields : startEditing(i, field)
    \/ \E value \in UNION {RawInputs(f) : f \in EditedFields} : Dashboard_handleEditChange(value)
    \/ Dashboard_pressEnter
    \/ Dashboard_blur
    \/ Dashboard_unmountQuiet
    \/ Dashboard_focusInput
    \/ \E i \in 1..Len(tasks) : Dashboard_fetchResolved(i)
    \/ \E i \in 1..Len(tasks) : Dashboard_fetchRejected(i)
    \/ \E i \in 1..Len(tasks) : Dashboard_readResolved(i)
    \/ \E i \in 1..Len(tasks) : Dashboard_saveRejected(i)
    \/ \E i \in 1..Len(tasks) : Dashboard_writeResolved(i)
    \/ \E key \in SortKeys : sortData(key)

SortSpec == SortInit /\ [][SortNext]_vars

\* Both editors on the year they mounted with, while another session commits
\* to the same collection.
RaceInit == Init /\ ~blurOnRemoval

RaceNext ==
    \/ \E i \in 1..Len(metrics.regionalMetrics), field \in EditedFields : startEditing(i, field)
    \/ \E value \in UNION {RawInputs(f) : f \in EditedFields} : Dashboard_handleEditChange(value)
    \/ Dashboard_pressEnter
    \/ Dashboard_blur
    \/ Dashboard_unmountQuiet
    \/ Dashboard_focusInput
    \/ \E i \in 1..Len(tasks) : Dashboard_fetchResolved(i)
    \/ \E i \in 1..Len(tasks) : Dashboard_fetchRejected(i)
    \/ \E i \in 1..Len(tasks) : Dashboard_readResolved(i)
    \/ \E i \in 1..Len(tasks) : Dashboard_saveRejected(i)
    \/ \E i \in 1..Len(tasks) : Dashboard_writeResolved(i)
    \/ \E i \in 1..Len(regionalData.regions) : handleRegionClick(i)
    \/ clearSelection
    \/ enterEditMode
    \/ \E field \in EditedFields : \E value \in RawInputs(field) :
          RegionalAnalysis_handleEditChange(field, value)
    \/ RegionalAnalysis_saveEdits
    \/ cancelEdit
    \/ \E i \in 1..Len(tasks) : RegionalAnalysis_fetchResolved(i)
    \/ \E i \in 1..Len(tasks) : RegionalAnalysis_fetchRejected(i)
    \/ \E i \in 1..Len(tasks) : RegionalAnalysis_readResolved(i)
    \/ \E i \in 1..Len(tasks) : RegionalAnalysis_saveRejected(i)
    \/ \E i \in 1..Len(tasks) : RegionalAnalysis_writeResolved(i)
    \/ \E region \in Regions, year \in Years : otherSession(region, year)

RaceSpec == RaceInit /\ [][RaceNext]_vars

\* Both editors on the year they mounted with, every store request settling
\* in the end and every pending re-render taking place.
LiveNext ==
    \/ \E i \in 1..Len(metrics.regionalMetrics), field \in EditedFields : startEditing(i, field)
    \/ \E value \in UNION {RawInputs(f) : f \in EditedFields} : Dashboard_handleEditChange(value)
    \/ Dashboard_pressEnter
    \/ Dashboard_blur
    \/ Dashboard_unmountBlur
    \/ Dashboard_unmountQuiet
    \/ Dashboard_focusInput
    \/ \E i \in 1..Len(tasks) : Dashboard_fetchResolved(i)
    \/ \E i \in 1..Len(tasks) : Dashboard_fetchRejected(i)
    \/ \E i \in 1..Len(tasks) : Dashboard_readResolved(i)
    \/ \E i \in 1..Len(tasks) : Dashboard_saveRejected(i)
    \/ \E i \in 1..Len(tasks) : Dashboard_writeResolved(i)
    \/ \E i \in 1..Len(regionalData.regions) : handleRegionClick(i)
    \/ clearSelection
    \/ enterEditMode
    \/ \E field \in EditedFields : \E value \in RawInputs(field) :
          RegionalAnalysis_handleEditChange(field, value)
    \/ RegionalAnalysis_saveEdits
    \/ cancelEdit
    \/ \E i \in 1..Len(tasks) : RegionalAnalysis_fetchResolved(i)
    \/ \E i \in 1..Len(tasks) : RegionalAnalysis_fetchRejected(i)
    \/ \E i \in 1..Len(tasks) : RegionalAnalysis_readResolved(i)
    \/ \E i \in 1..Len(tasks) : RegionalAnalysis_saveRejected(i)
    \/ \E i \in 1..Len(tasks) : RegionalAnalysis_writeResolved(i)

\* a request settles: it resolves or, while failures are left, it rejects
Settle ==
    \/ \E i \in 1..Len(tasks) : Dashboard_fetchResolved(i)
    \/ \E i \in 1..Len(tasks) : Dashboard_fetchRejected(i)
    \/ \E i \in 1..Len(tasks) : Dashboard_readResolved(i)
    \/ \E i \in 1..Len(tasks) : Dashboard_saveRejected(i)
    \/ \E i \in 1..Len(tasks) : Dashboard_writeResolved(i)
    \/ \E i \in 1..Len(tasks) : RegionalAnalysis_fetchResolved(i)
    \/ \E i \in 1..Len(tasks) : RegionalAnalysis_fetchRejected(i)
    \/ \E i \in 1..Len(tasks) : RegionalAnalysis_readResolved(i)
    \/ \E i \in 1..Len(tasks) : RegionalAnalysis_saveRejected(i)
    \/ \E i \in 1..Len(tasks) : RegionalAnalysis_writeResolved(i)
\* the render that takes the table off the screen
Unmount == Dashboard_unmountBlur \/ Dashboard_unmountQuiet

LiveSpec == Init /\ [][LiveNext]_vars /\ WF_vars(Settle) /\ WF_vars(Unmount)

\* ------------------------------------------------------------------------
\* Properties
\* ------------------------------------------------------------------------
\* the step ran saveEdits as far as validation
Committing == last'.op = "saveEdits" /\ last'.result \in {"invalid", "started"}
\* the record saveEdits validates and, when it passes, commits
Candidate ==
    IF view = "Dashboard" THEN editedData[<<isEditing[1].region, selectedYear>>] ELSE editForm[1]
Violations == IF view = "Dashboard" THEN validateEdit(Candidate) ELSE validateForm(Candidate)
\* the step completed the commit that task i carried
Saved(i) == tasks[i].kind = "write" /\ last'.result = "saved" /\ tasks' = Remove(tasks, i)
\* the step staged a value
Staging == last'.op = "handleEditChange"
PendingKey == <<isEditing[1].region, selectedYear>>

\* C1: when saveEdits finds at least one violation in the candidate, it ends
\* with saveError set to the messages, issues no request and leaves the
\* store as it was.
C1_ValidationFailure ==
    [][(Committing /\ Violations # << >>)
        => /\ last'.result = "invalid"
           /\ saveError' = Violations
           /\ tasks' = tasks
           /\ store' = store]_vars
C1_Witness ==
    /\ last.op = "saveEdits" /\ last.result = "invalid"
    /\ Len(saveError) >= 1
    /\ store = SeedStore

IsCount(v) == v.t = "num" /\ v.n >= 0
ValidRecord(r) ==
    /\ \A k \in FieldSet : IsCount(r[k])
    /\ r.complianceRate.n <= Scale
    /\ r.salaryTaxpayers.n + r.eVatTaxpayers.n + r.otherTaxpayers.n <= r.taxpayers.n
\* C2: every year record of the store has seven non-negative numbers, a
\* compliance rate of at most 1 and categories that sum to at most taxpayers.
C2_StoreInvariant ==
    \A r \in Regions : \A i \in 1..Len(store[r]) : ValidRecord(store[r][i])

\* the constraints of a year record, each with the message of the view
Negative(v) == ~IsCount(v) /\ v.t = "num"
InUnitRange(v) == IsCount(v) /\ v.n <= Scale
WithinTaxpayers(r) ==
    /\ \A k \in {"salaryTaxpayers", "eVatTaxpayers", "otherTaxpayers", "taxpayers"} : r[k].t = "num"
    /\ r.salaryTaxpayers.n + r.eVatTaxpayers.n + r.otherTaxpayers.n <= r.taxpayers.n
Expected(r) ==
    Check(Negative(r.taxpayers), "Taxpayers cannot be negative.")
    \o Check(Negative(r.averageTax), "Average Tax cannot be negative.")
    \o Check(Negative(r.totalTax), "Total Tax cannot be negative.")
    \o Check(Negative(r.salaryTaxpayers), "Salary Taxpayers cannot be negative.")
    \o Check(Negative(r.eVatTaxpayers), "E-VAT Taxpayers cannot be negative.")
    \o Check(Negative(r.otherTaxpayers), "Other Taxpayers cannot be negative.")
    \o Check(~InUnitRange(r.complianceRate),
             IF view = "Dashboard" THEN "Compliance Rate must be between 0 and 100%."
             ELSE "Compliance Rate must be between 0 and 1.")
    \o Check(~WithinTaxpayers(r),
             "Sum of Salary, E-VAT, and Other Taxpayers cannot exceed Total Taxpayers.")
\* C3: validation returns one message for each violated constraint and none
\* for a satisfied one, so it returns none exactly when the candidate
\* satisfies all eight.
C3_Validate ==
    [][Committing => Violations = Expected(Candidate)]_vars

\* C4: a completed commit leaves in the store, for its region and year, the
\* pending edit merged over the record the store held.
C4_CommitCandidate ==
    [][\A i \in 1..Len(tasks) : Saved(i) =>
          LET t == tasks[i]
              current == FindYear(store[t.region], t.year)
              written == FindYear(store'[t.region], t.year)
          IN /\ written.year = Year(t.year)
             /\ \A k \in FieldSet : written[k] = Spread(current, t.cand)[k]]_vars

\* C5: a completed commit writes only its region's document; in the series
\* it read, the record of the year is replaced in place or, when there was
\* none, appended; every other record keeps its place and content; the
\* series grows by at most one and holds each year once.
C5_Frame ==
    [][\A i \in 1..Len(tasks) : Saved(i) =>
          LET t == tasks[i]
              old == t.base
              new == store'[t.region]
              had == \E j \in 1..Len(old) : old[j].year = Year(t.year)
          IN /\ \A r \in Regions \ {t.region} : store'[r] = store[r]
             /\ Len(new) = Len(old) + (IF had THEN 0 ELSE 1)
             /\ \A j \in 1..Len(old) : new[j].year = old[j].year
             /\ \A j \in 1..Len(old) : old[j].year # Year(t.year) => new[j] = old[j]
             /\ ~had => new[Len(new)].year = Year(t.year)
             /\ \A j, k \in 1..Len(new) : j # k => new[j].year # new[k].year]_vars
C5_Witness ==
    /\ last.op = "saveEdits" /\ last.result = "saved"
    /\ Len(store["B"]) = Len(SeedStore["B"]) + 1
    /\ store["A"] = SeedStore["A"]

\* C6: once a commit has completed, no pending edit is left for its region
\* and year.
C6_PendingCleared ==
    [][\A i \in 1..Len(tasks) : Saved(i) =>
          IF view = "Dashboard"
          THEN editedData'[<<tasks[i].region, tasks[i].year>>] = EmptyObj
          ELSE editForm' = << >>]_vars

\* C7: when the read or the write of a commit fails, saveError becomes the
\* generic failure message and the store, the displayed rows and aggregates,
\* the pending edit and the open editor stay as they were.
C7_PersistFailure ==
    [][(last'.op = "saveEdits" /\ last'.result = "failed")
        => /\ saveError' = SaveFailed
           /\ store' = store
           /\ metrics' = metrics /\ editedData' = editedData /\ isEditing' = isEditing
           /\ regionalData' = regionalData /\ selectedRegion' = selectedRegion
           /\ editMode' = editMode /\ editForm' = editForm]_vars
C7_Witness ==
    /\ last.op = "saveEdits" /\ last.result = "failed"
    /\ saveError = SaveFailed
    /\ store = SeedStore
    /\ \/ view = "Dashboard" /\ isEditing # << >> /\ editedData[PendingKey] # EmptyObj
       \/ view = "RegionalAnalysis" /\ editMode /\ editForm # << >>

\* a pending edit is open and the user can act on it
EditorOpen ==
    \/ view = "Dashboard" /\ InputRendered /\ focused /\ editedData[PendingKey] # EmptyObj
    \/ PanelShown /\ editMode /\ ~saving /\ events["click"] < MaxClicks
\* a step that drops the pending edit, asks the store nothing and changes
\* neither the store nor the displayed data
Discard ==
    /\ Next
    /\ IF view = "Dashboard" THEN editedData'[PendingKey] = EmptyObj ELSE editForm' = << >>
    /\ tasks' = tasks /\ store' = store
    /\ metrics' = metrics /\ regionalData' = regionalData
\* C8: wherever an edit can be staged it can be discarded: the pending edit
\* is cleared without validation, without a request and without a change to
\* the store or the displayed data.
C8_Discard == EditorOpen => ENABLED Discard

\* the staged field is set in the pending edit and nothing else is touched
MergeOnly ==
    LET field == last'.result
    IN IF view = "Dashboard"
       THEN /\ \A key \in EditKeys \ {PendingKey} : editedData'[key] = editedData[key]
            /\ \A k \in Keys \ {field} : editedData'[PendingKey][k] = editedData[PendingKey][k]
            /\ Has(editedData'[PendingKey], field)
       ELSE /\ editForm' # << >>
            /\ \A k \in Keys \ {field} : editForm'[1][k] = editForm[1][k]
            /\ Has(editForm'[1], field)
\* C9 as written: staging sets one field of the pending edit and causes no
\* request to the store.
C9_StagePure ==
    [][Staging => MergeOnly /\ store' = store /\ tasks' = tasks]_vars
\* C9: staging sets one field of the pending edit, keeps every other field
\* and every other pending edit, and writes nothing; RegionalAnalysis asks
\* the store nothing, the Dashboard runs its fetch effect again (one read).
C9_StageMerge ==
    [][Staging =>
          /\ MergeOnly
          /\ store' = store
          /\ IF view = "Dashboard"
             THEN tasks' = Append(tasks, FetchTask(selectedYear, editedData'))
             ELSE tasks' = tasks]_vars
C9_Witness ==
    /\ last.op = "handleEditChange" /\ last.result = "taxpayers"
    /\ view = "Dashboard"
    /\ \E key \in EditKeys :
          /\ editedData[key].taxpayers = Num(1000 * Scale)
          /\ editedData[key].complianceRate = SeedStore["A"][2].complianceRate
    /\ \E i \in 1..Len(tasks) : tasks[i].kind = "fetch" /\ tasks[i].edits = editedData

\* the compliance rate the step staged, and the number its text stands for
StagedRate ==
    IF view = "Dashboard" THEN editedData'[PendingKey].complianceRate
    ELSE editForm'[1].complianceRate
StagingRate ==
    Staging /\ last'.result = "complianceRate" /\ parseFloat(last'.text).t = "num"
\* C10 as written: in every view a percent p typed for the compliance rate
\* is staged as p / 100.
C10_PercentEverywhere ==
    [][StagingRate =>
          StagedRate.t = "num" /\ StagedRate.n * 100 = parseFloat(last'.text).n]_vars
\* C10: the Dashboard stages a typed percent p as p / 100; RegionalAnalysis
\* stages the typed number as it is.
C10_PercentToFraction ==
    [][StagingRate =>
          /\ StagedRate.t = "num"
          /\ IF view = "Dashboard"
             THEN StagedRate.n * 100 = parseFloat(last'.text).n
             ELSE StagedRate.n = parseFloat(last'.text).n]_vars
C10_Witness ==
    /\ last.op = "handleEditChange" /\ last.result = "complianceRate"
    /\ last.text = <<"8", "5">>
    /\ view = "Dashboard"
    /\ \E key \in EditKeys : editedData[key].complianceRate = Num((85 * Scale) \div 100)

\* the aggregates have been computed (by a fetch or by a commit)
Aggregated == metrics # InitialMetrics
NumericRows(rows) ==
    \A i \in 1..Len(rows) : rows[i].taxpayers.t = "num" /\ rows[i].complianceRate.t = "num"
RECURSIVE Total(_, _)
\* the sum of f[i] over the indices in S
Total(f, S) ==
    IF S = {} THEN 0 ELSE LET i == CHOOSE j \in S : TRUE IN f[i] + Total(f, S \ {i})
\* the regions of the scenario: A with 100 taxpayers at 0.9, B with 300 at 0.5
ScenarioRows ==
    <<With(With(With(ZeroRecord, "region", "A"), "taxpayers", Num(100 * Scale)),
           "complianceRate", Num(9 * (Scale \div 10))),
      With(With(With(ZeroRecord, "region", "B"), "taxpayers", Num(300 * Scale)),
           "complianceRate", Num(5 * (Scale \div 10)))>>
\* C12: the national compliance rate is the taxpayer-weighted mean: over
\* numeric rows with a positive sum of taxpayers, rate * sum(taxpayers) =
\* sum(rate_i * taxpayers_i); for A(100, 0.9) and B(300, 0.5) it is 0.6.
C12_WeightedMean ==
    /\ (Aggregated /\ NumericRows(metrics.regionalMetrics)
        /\ metrics.totalTaxpayers.n > 0)
          => LET rows == metrics.regionalMetrics
                 I == 1..Len(rows)
             IN /\ metrics.avgCompliance.q
                      = Num(Total([i \in I |-> rows[i].taxpayers.n], I))
                /\ metrics.avgCompliance.p
                      = Num(Total([i \in I |-> rows[i].complianceRate.n
                                                  * (rows[i].taxpayers.n \div Scale)], I))
    /\ LET rate == Aggregate(ScenarioRows).avgCompliance
       IN rate.p.n * 10 = rate.q.n * 6
C12_Witness ==
    /\ Aggregated
    /\ Len(metrics.regionalMetrics) = 3
    /\ metrics.regionalMetrics[1].taxpayers = Num(4 * Scale)
    /\ metrics.regionalMetrics[1].complianceRate = Num((85 * Scale) \div 100)
    /\ metrics.regionalMetrics[2].taxpayers = Num(30 * Scale)
    /\ metrics.avgCompliance = Quot(Num(184 * (Scale \div 10)), Num(34 * Scale))

\* the step completed the fetch that task i carried
Fetched(i) ==
    tasks[i].kind = "fetch" /\ last'.op = "fetch" /\ last'.result = "resolved"
    /\ tasks' = Remove(tasks, i)
\* the regions for which the fetch of task t finds neither a record of its
\* year nor a pending edit
Missing(t) ==
    {r \in Regions : /\ \A j \in 1..Len(store[r]) : store[r][j].year # Year(t.year)
                     /\ t.edits[<<r, t.year>>] = EmptyObj}
\* C13: a fetch gives every region without a record for its year a row with
\* all seven fields 0: the region is listed, adds nothing to totalTaxpayers,
\* totalTax and the weighted-compliance numerator, and the fetch completes.
C13_ZeroRecord ==
    [][\A i \in 1..Len(tasks) : Fetched(i) =>
          LET t == tasks[i]
              rows == IF view = "Dashboard" THEN metrics'.regionalMetrics
                      ELSE regionalData'.regions
              present == SelectSeq(rows, LAMBDA row : row.region \notin Missing(t))
          IN /\ Len(rows) = Cardinality(Regions)
             /\ \A r \in Missing(t) :
                   \E j \in 1..Len(rows) :
                      rows[j].region = r /\ \A k \in FieldSet : rows[j][k] = Num(0)
             /\ error' = error /\ ~loading'
             /\ view = "Dashboard" =>
                   /\ metrics'.totalTaxpayers = SumOf(present, "taxpayers")
                   /\ metrics'.totalTax = SumOf(present, "totalTax")
                   /\ JsGt(metrics'.totalTaxpayers, Num(0))
                         => metrics'.avgCompliance.p = WeightedSum(present)]_vars
C13_Witness ==
    /\ last.op = "fetch" /\ last.result = "resolved"
    /\ view = "Dashboard" /\ selectedYear = 2025 /\ tasks = << >>
    /\ Len(metrics.regionalMetrics) = 3
    /\ metrics.regionalMetrics[2].region = "B"
    /\ \A k \in FieldSet : metrics.regionalMetrics[2][k] = Num(0)
    /\ metrics.totalTaxpayers = JsAdd(SeedStore["A"][2].taxpayers, SeedStore["C"][1].taxpayers)

\* C19: when a fetch fails the error banner is set, loading is false again
\* and the rows, the aggregates and the chart data are the ones held before
\* the failure.
C19_FetchFailure ==
    [][(last'.op = "fetch" /\ last'.result = "rejected")
        => /\ error' = FetchFailed
           /\ ~loading'
           /\ metrics' = metrics
           /\ regionalData' = regionalData
           /\ store' = store]_vars

\* the rows on display
Shown == IF view = "Dashboard" THEN metrics.regionalMetrics ELSE regionalData.regions
\* the rows show, field for field, the store's records of year y
ShowsYear(y) ==
    /\ Len(Shown) = Cardinality(Regions)
    /\ \A j \in 1..Len(Shown) :
          \A k \in FieldSet : Shown[j][k] = FindYear(store[Shown[j].region], y)[k]
\* C20: a fetch is never cancelled: it stays outstanding until it settles,
\* and when it resolves its rows replace the displayed ones whatever year is
\* selected by then.
C20_NeverCancelled ==
    [][\A i \in 1..Len(tasks) : tasks[i].kind = "fetch" =>
          /\ \/ \E j \in 1..Len(tasks') : tasks'[j] = tasks[i]
             \/ last'.op = "fetch" /\ tasks' = Remove(tasks, i)
          /\ Fetched(i) =>
                \A j \in 1..Len(Shown') :
                   \A k \in FieldSet :
                      Shown'[j][k] = Spread(FindYear(store[Shown'[j].region], tasks[i].year),
                                            tasks[i].edits[<<Shown'[j].region, tasks[i].year>>])[k]]_vars
\* no request is in flight, the selected year is 2024 and the rows are
\* those of 2025
C20_Witness ==
    /\ tasks = << >> /\ ~loading
    /\ selectedYear = 2024
    /\ last.op = "fetch" /\ last.result = "resolved"
    /\ fails = 0 /\ error = << >>
    /\ ShowsYear(2025) /\ ~ShowsYear(2024)
\* ------------------------------------------------------------------------
\* C14: the three totals of TaxSourceBreakdown are, each, the sum of that
\* source counter over every record of every region of the dataset; no year
\* selects among the records.
\* ------------------------------------------------------------------------
\* the records the dataset holds, whatever the selected year
AllRecords == StaticData
CounterTotal(k) ==
    Num(Total([i \in 1..Len(AllRecords) |-> AllRecords[i][k].n], 1..Len(AllRecords)))

SameLetter(c, d) ==
    \/ c = d
    \/ {c, d} \in {{"a", "A"}, {"b", "B"}, {"c", "C"}}
\* part occurs in name at some position, letter for letter up to case
Contains(name, part) ==
    \E start \in 1..(Len(name) + 1) :
       \A j \in 1..Len(part) :
          start + j - 1 <= Len(name) /\ SameLetter(name[start + j - 1], part[j])
\* the rate, read as a number of ten-thousandths, lies in the tier
InTier(rate, tier) ==
    \/ tier = "all"
    \/ LET x == ToNumber(rate)
       IN /\ x.t = "num"
          /\ \/ tier = "high" /\ 10 * x.n >= 8 * Scale
             \/ tier = "medium" /\ 10 * x.n >= 5 * Scale /\ 10 * x.n < 8 * Scale
             \/ tier = "low" /\ 10 * x.n < 5 * Scale
Wanted(region) ==
    Contains(Letters(region.region), searchQuery) /\ InTier(region.complianceRate, activeTab)
\* the positions of shown, strictly increasing, at which full holds its rows
Embedding(shown, full) ==
    {f \in [1..Len(shown) -> 1..Len(full)] :
        /\ \A i \in 1..Len(shown) : full[f[i]] = shown[i]
        /\ \A i, j \in 1..Len(shown) : i < j => f[i] < f[j]}

C15_Filter ==
    view \in {"RegionalAnalysis", "StaticRegionalAnalysis"} =>
        LET regions == regionalData.regions
        IN /\ Embedding(Filtered, regions) # {}
           /\ \A i \in 1..Len(Filtered) : Wanted(Filtered[i])
           /\ Len(Filtered) = Cardinality({i \in 1..Len(regions) : Wanted(regions[i])})

\* both filters are on and each of them alone would keep more: "B" is in the
\* names Ab and Ba, the high tier holds Ba only
C15_Witness ==
    /\ view = "StaticRegionalAnalysis"
    /\ searchQuery = <<"B">> /\ activeTab = "high"
    /\ Len(regionalData.regions) = 3
    /\ Len(Filtered) = 1 /\ Filtered[1].region = "Ba"
    /\ Filtered[1].complianceRate = Num(8 * (Scale \div 10))

\* ------------------------------------------------------------------------
\* C16: with an empty search text and the tab "all", the list a component
\* shows is its full region list: every region once, in the order of the
\* snapshot.
\* ------------------------------------------------------------------------
\* the region list the mounted component holds
Snapshot ==
    CASE view = "Dashboard" -> metrics.regionalMetrics
      [] view = "TaxSourceBreakdown" -> taxSources.regions
      [] OTHER -> regionalData.regions

C16_NoFilter ==
    (searchQuery = << >> /\ activeTab = "all") =>
        /\ Len(Filtered) = Len(Snapshot)
        /\ \A i \in 1..Len(Snapshot) : Filtered[i] = Snapshot[i]
        /\ \A i, j \in 1..Len(Filtered) :
              Filtered[i].region = Filtered[j].region => i = j

\* the search text was cleared over a Dashboard table that had been sorted
\* into an order other than the fetched one
C16_Witness ==
    /\ view = "Dashboard" /\ ~loading
    /\ last.op = "clearSearch" /\ searchQuery = << >> /\ activeTab = "all"
    /\ sortConfig = [key |-> "taxpayers", direction |-> "asc"]
    /\ Len(Filtered) = 3
    /\ <<Filtered[1].region, Filtered[2].region, Filtered[3].region>> = <<"B", "C", "A">>

\* ------------------------------------------------------------------------
\* C17: a click on a column header keeps the column and flips the direction
\* when the column is the current one, takes the column ascending when it
\* is another one, and leaves the rows a permutation of what they were,
\* ordered by that column in that direction.
\* ------------------------------------------------------------------------
Opposite(direction) == IF direction = "asc" THEN "desc" ELSE "asc"
Sorted == last'.op = "sortData" /\ events'["sort"] = events["sort"] + 1
PermutationOf(after, before) ==
    /\ Len(after) = Len(before)
    /\ \E f \in Permutations(1..Len(before)) : \A i \in 1..Len(before) : after[i] = before[f[i]]
\* a comes strictly after b in the ascending order of the column
After(a, b, key) ==
    IF key = "region"
    THEN \E i, j \in 1..Len(RegionOrder) : RegionOrder[i] = a /\ RegionOrder[j] = b /\ i > j
    ELSE a.t = "num" /\ b.t = "num" /\ a.n > b.n
\* no row stands before a row that the order puts strictly before it
Ordered(rows, key, direction) ==
    \A i, j \in 1..Len(rows) :
       i < j => IF direction = "asc" THEN ~After(rows[i][key], rows[j][key], key)
                ELSE ~After(rows[j][key], rows[i][key], key)

C17_SortData ==
    [][Sorted =>
          LET key == last'.result
          IN /\ sortConfig'.key = key
             /\ sortConfig'.direction = IF sortConfig.key = key
                                        THEN Opposite(sortConfig.direction) ELSE "asc"
             /\ PermutationOf(metrics'.regionalMetrics, metrics.regionalMetrics)
             /\ Ordered(metrics'.regionalMetrics, key, sortConfig'.direction)]_vars

\* the same for rows whose value in the column is a number or a name
C17_SortComparable ==
    [][(Sorted /\ \A i \in 1..Len(metrics.regionalMetrics) :
                     LET v == metrics.regionalMetrics[i][last'.result]
                     IN last'.result = "region" \/ v.t = "num") =>
          LET key == last'.result
          IN /\ sortConfig'.key = key
             /\ sortConfig'.direction = IF sortConfig.key = key
                                        THEN Opposite(sortConfig.direction) ELSE "asc"
             /\ PermutationOf(metrics'.regionalMetrics, metrics.regionalMetrics)
             /\ Ordered(metrics'.regionalMetrics, key, sortConfig'.direction)]_vars

\* ------------------------------------------------------------------------
\* C18: an export over an empty list alerts the user and hands no file to
\* the browser; an export over a non-empty list alerts nobody and hands over
\* exactly one file, whose first line is the header and whose following
\* lines are the listed regions, one line each, in the order of the list.
\* ------------------------------------------------------------------------
Exported == last'.op = "exportToCSV" /\ events'["export"] = events["export"] + 1
RECURSIVE Lines(_)
\* the lines of a text
Lines(text) ==
    IF \A i \in 1..Len(text) : text[i] # "\n" THEN <<text>>
    ELSE LET cut == CHOOSE i \in 1..Len(text) :
                       text[i] = "\n" /\ \A j \in 1..(i - 1) : text[j] # "\n"
         IN <<SubSeq(text, 1, cut - 1)>> \o Lines(SubSeq(text, cut + 1, Len(text)))
\* the line starts with the quoted name and a comma
StartsWithName(line, name) ==
    LET cell == <<"\"">> \o Letters(name) \o <<"\"", ",">>
    IN Len(line) >= Len(cell) /\ SubSeq(line, 1, Len(cell)) = cell

C18_Export ==
    [][Exported =>
          IF Len(Filtered) = 0
          THEN alerts' = alerts + 1 /\ downloads' = downloads
          ELSE /\ alerts' = alerts
               /\ Len(downloads') = Len(downloads) + 1
               /\ SubSeq(downloads', 1, Len(downloads)) = downloads
               /\ LET lines == Lines(downloads'[Len(downloads')].content)
                  IN /\ Len(lines) = 1 + Len(Filtered)
                     /\ lines[1][1] = "Region"
                     /\ \A i \in 1..Len(Filtered) :
                           StartsWithName(lines[i + 1], Filtered[i].region)]_vars

\* the breakdown exported the two regions its search text leaves of three
C18_Witness ==
    /\ view = "TaxSourceBreakdown"
    /\ last.op = "exportToCSV" /\ last.result = "file"
    /\ searchQuery = <<"a">> /\ Len(taxSources.regions) = 3 /\ Len(Filtered) = 2
    /\ alerts = 0 /\ Len(downloads) = 1
    /\ Len(Lines(downloads[1].content)) = 3

\* ------------------------------------------------------------------------
\* C21: the commit is a read followed by a write of the whole series: when
\* another writer changed the region's document after the read, the write
\* puts the series that was read, with the record of the target year
\* replaced, over the other writer's change, in the target year and in every
\* other year, and the step reports no error.
\* ------------------------------------------------------------------------
\* the record the series holds for year y, if any
RecordOf(series, y) ==
    SelectSeq(series, LAMBDA rec : rec.year = Year(y))

C21_LostUpdate ==
    [][\A i \in 1..Len(tasks) :
          (Saved(i) /\ tasks[i].base # store[tasks[i].region]) =>
             LET t == tasks[i]
             IN /\ \A y \in Years \ {t.year} :
                      RecordOf(store'[t.region], y) = RecordOf(t.base, y)
                /\ \A k \in FieldSet : FindYear(store'[t.region], t.year)[k] = t.cand[k]
                /\ saveError' = saveError /\ error' = error]_vars

\* a commit to 2025 completed without an error and the record another
\* session had written for another year of the same region is gone
C21_Witness ==
    /\ last.op = "saveEdits" /\ last.result = "saved"
    /\ saveError = << >> /\ error = << >>
    /\ Len(others) = 1 /\ others[1].year # 2025
    /\ RecordOf(store[others[1].region], others[1].year)
          = RecordOf(SeedStore[others[1].region], others[1].year)

\* ------------------------------------------------------------------------
\* C22: the region list held in state changes only when a fetch, a sort or
\* a commit replaces it; selecting a region and showing its detail panel
\* leaves the order and the contents of the list as they were.
\* ------------------------------------------------------------------------
\* the step completed a fetch, sorted the table or completed a commit
Replacing ==
    \/ last'.op = "fetch" /\ last'.result = "resolved"
    \/ last'.op = "sortData"
    \/ last'.op = "saveEdits" /\ last'.result = "saved"

C22_NoMutationInPlace ==
    [][/\ (regionalData'.regions # regionalData.regions) => Replacing
       /\ (metrics'.regionalMetrics # metrics.regionalMetrics) => Replacing
       /\ last'.op = "handleRegionClick" => regionalData' = regionalData]_vars

\* ------------------------------------------------------------------------
\* C23: with one session and no other writer, whenever no store request is
\* in flight, no edit is open and the last fetch succeeded, every region's
\* displayed record equals, on the seven data fields, the store's record
\* for the region and the selected year, or the all-zero record when the
\* store has none.
\* ------------------------------------------------------------------------
Quiescent ==
    /\ tasks = << >> /\ ~loading /\ ~saving
    /\ isEditing = << >> /\ ~editMode
    /\ error = << >>
    /\ others = << >>

C23_QuiescentConsistency == Quiescent => ShowsYear(selectedYear)

\* ------------------------------------------------------------------------
\* C24: in RegionalAnalysis the record saveEdits sets out to write under a
\* year starts from the selected region's record of that year: every field
\* the user did not edit has the value of the store's record for the region
\* and that year, never the value of another year.
\* ------------------------------------------------------------------------
\* the fields no input of the modelled user changes
Untouched == FieldSet \ EditedFields
\* the step ran saveEdits of RegionalAnalysis past validation
SaveStarted ==
    /\ view = "RegionalAnalysis"
    /\ last'.op = "saveEdits" /\ last'.result = "started"
    /\ Len(tasks') = Len(tasks) + 1

C24_SameYear ==
    [][SaveStarted =>
          LET t == tasks'[Len(tasks')]
          IN \A k \in Untouched : t.cand[k] = FindYear(store[t.region], t.year)[k]]_vars

\* ------------------------------------------------------------------------
\* C25: a view has at most one commit in flight: no saveEdits begins its
\* read of the store while the read or the write of an earlier saveEdits is
\* still outstanding.
\* ------------------------------------------------------------------------
\* the commits in flight: the requests saveEdits is waiting for
CommitsInFlight == {i \in 1..Len(tasks) : tasks[i].kind \in {"read", "write"}}

C25_OneCommit == Cardinality(CommitsInFlight) <= 1

\* ------------------------------------------------------------------------
\* C26: in RegionalAnalysis a selection made while a save is in flight is
\* final: when the save completes, a closed detail panel is still closed, a
\* panel opened on another region still shows that region, and no region's
\* row takes the saved values of a different region.
\* ------------------------------------------------------------------------
C26_SelectionFinal ==
    [][\A i \in 1..Len(tasks) :
          (view = "RegionalAnalysis" /\ Saved(i)) =>
             LET t == tasks[i]
             IN /\ selectedRegion = << >> => selectedRegion' = << >>
                /\ (selectedRegion # << >> /\ selectedRegion[1].region # t.region)
                      => selectedRegion' = selectedRegion
                /\ \A j \in 1..Len(regionalData'.regions) :
                      LET row == regionalData'.regions[j]
                      IN row.region # t.region
                            => \E k \in 1..Len(regionalData.regions) :
                                  regionalData.regions[k] = row]_vars

\* ------------------------------------------------------------------------
\* C27: in the Dashboard loading is true in every state in which a fetch of
\* the collection or a commit is in flight, also when several overlap; it
\* is false only when none is in flight.
\* ------------------------------------------------------------------------
C27_LoadingWhileBusy ==
    view = "Dashboard" => (loading <=> tasks # << >>)

\* ------------------------------------------------------------------------
\* C28: every saveEdits that passes validation leaves the busy state in the
\* end, whether it succeeds or fails: provided every store request settles,
\* a state follows in which no commit is in flight and saving
\* (RegionalAnalysis) or loading (Dashboard) is false, so that Save, Cancel
\* and the cells are no longer disabled or hidden.
\* ------------------------------------------------------------------------
\* saveEdits has passed validation and set the busy flag
Busy == last.op = "saveEdits" /\ last.result = "started"
Idle == CommitsInFlight = {} /\ (IF view = "Dashboard" THEN ~loading ELSE ~saving)

C28_LeavesBusy == Busy ~> Idle

\* a commit of the Dashboard failed and the table is back on the screen
C28_Witness ==
    /\ view = "Dashboard"
    /\ last.op = "saveEdits" /\ last.result = "failed"
    /\ saveError = SaveFailed
    /\ Idle /\ tasks = << >> /\ isEditing # << >>

\* ------------------------------------------------------------------------
\* C29: the compliance tiers partition the region list: every region held
\* in memory, also one that carries a staged or committed complianceRate,
\* satisfies exactly one of the high, medium and low predicates, so the
\* three tier tabs are pairwise disjoint and together list the regions of
\* the tab "all".
\* ------------------------------------------------------------------------
Tiers == {"high", "medium", "low"}
\* the tiers whose predicate the region satisfies
TiersOf(region) == {tier \in Tiers : InTab(region, tier)}
\* the names a tier tab lists with an empty search text
Listed(tab) ==
    LET rows == RegionalAnalysis_filteredRegions(Shown, tab, << >>)
    IN {rows[j].region : j \in 1..Len(rows)}

C29_TiersPartition ==
    /\ \A j \in 1..Len(Shown) : Cardinality(TiersOf(Shown[j])) = 1
    /\ \A a, b \in Tiers : a # b => Listed(a) \cap Listed(b) = {}
    /\ UNION {Listed(tier) : tier \in Tiers} = Listed("all")

\* ------------------------------------------------------------------------
\* C30: whenever the Dashboard shows its table, the rows are ordered by the
\* column and the direction sortConfig names (taxpayers descending at the
\* start): in the state after the first fetch and after every sortData,
\* refetch and commit.
\* ------------------------------------------------------------------------
C30_OrderedAsConfigured ==
    (view = "Dashboard" /\ ~loading /\ Aggregated)
        => Ordered(metrics.regionalMetrics, sortConfig.key, sortConfig.direction)

====
